---------------------------- MODULE Spec2Model ----------------------------
(***************************************************************************)
(* TerraGuard dashboard (src/app/page.tsx, second revision starting at     *)
(* line 557): Web Serial session controller, read loop with line           *)
(* reassembly, the Arduino line parser, the simulated-data generator and   *)
(* the bounded chart / activity-log aggregation; and the inference module  *)
(* (ml-inference, src/unnamed/part_001): loading of the model descriptor,  *)
(* the forward pass, the attribution and the confidence.                   *)
(*                                                                         *)
(* Text is a sequence of one-character strings.  Numbers produced by       *)
(* parseFloat, and numbers rounded to two or four decimals, are exact      *)
(* rationals [n, d] in lowest terms (d > 0): k / 100 stands for the double *)
(* nearest to it.  NaN and null are records of their own.  The             *)
(* simulated-data generator and the inference module compute in IEEE 754   *)
(* doubles.                                                                *)
(***************************************************************************)
EXTENDS Integers, Sequences, FiniteSets, TLC

(***************************************************************************)
(* Characters and character classes                                        *)
(***************************************************************************)
Digits == <<"0", "1", "2", "3", "4", "5", "6", "7", "8", "9">>

Lower == <<"a", "b", "c", "d", "e", "f", "g", "h", "i", "j", "k", "l", "m",
           "n", "o", "p", "q", "r", "s", "t", "u", "v", "w", "x", "y", "z">>

Upper == <<"A", "B", "C", "D", "E", "F", "G", "H", "I", "J", "K", "L", "M",
           "N", "O", "P", "Q", "R", "S", "T", "U", "V", "W", "X", "Y", "Z">>

Range(f) == {f[i] : i \in DOMAIN f}

\* \d
DigitClass == Range(Digits)

\* [\d.]
NumClass == DigitClass \cup {"."}

\* \w
WordClass == Range(Lower) \cup Range(Upper) \cup DigitClass \cup {"_"}

\* \s, and the characters String.prototype.trim strips: the white space and
\* line terminators of ECMAScript.  A character outside ASCII is written
\* by its code point.
SpaceClass ==
    { " ", "\t", "\n", "\r", "\f", "<U+000B>", "<U+00A0>", "<U+1680>",
      "<U+2000>", "<U+2001>", "<U+2002>", "<U+2003>", "<U+2004>", "<U+2005>",
      "<U+2006>", "<U+2007>", "<U+2008>", "<U+2009>", "<U+200A>", "<U+2028>",
      "<U+2029>", "<U+202F>", "<U+205F>", "<U+3000>", "<U+FEFF>" }

DigitVal(c) == (CHOOSE i \in DOMAIN Digits : Digits[i] = c) - 1

\* String.prototype.toUpperCase, one character
ToUpperChar(c) ==
    IF c \in Range(Lower)
    THEN Upper[CHOOSE i \in DOMAIN Lower : Lower[i] = c]
    ELSE c

toUpperCase(s) == [i \in DOMAIN s |-> ToUpperChar(s[i])]

\* String.prototype.trim
trim(s) ==
    LET keep == {i \in DOMAIN s : s[i] \notin SpaceClass}
    IN  IF keep = {} THEN <<>>
        ELSE LET lo == CHOOSE i \in keep : \A j \in keep : i <= j
                 hi == CHOOSE i \in keep : \A j \in keep : j <= i
             IN  SubSeq(s, lo, hi)

\* The positions 1..n as a sequence
Positions(n) == [i \in 1..n |-> i]

\* String.prototype.split('\n'): the segments between separators, always at
\* least one segment (the empty text splits into one empty segment).
split(s) ==
    LET nl == SelectSeq(Positions(Len(s)), LAMBDA i : s[i] = "\n")
        from(k) == IF k = 1 THEN 1 ELSE nl[k - 1] + 1
        to(k) == IF k = Len(nl) + 1 THEN Len(s) ELSE nl[k] - 1
    IN  [k \in 1..(Len(nl) + 1) |-> SubSeq(s, from(k), to(k))]

(***************************************************************************)
(* Rationals                                                               *)
(***************************************************************************)
Abs(x) == IF x < 0 THEN -x ELSE x

RECURSIVE GCD(_, _)
GCD(a, b) == IF b = 0 THEN a ELSE GCD(b, a % b)

\* n/d in lowest terms with a positive denominator
Rat(n, d) ==
    LET s == IF d < 0 THEN -1 ELSE 1
        g == GCD(Abs(n), Abs(d))
    IN  [n |-> (s * n) \div g, d |-> (s * d) \div g]

RLess(a, b) == a.n * b.d < b.n * a.d
RLeq(a, b) == a.n * b.d <= b.n * a.d
RInt(k) == [n |-> k, d |-> 1]

(***************************************************************************)
(* IEEE 754 binary64 arithmetic, as the JavaScript Number operators of     *)
(* simulateReading and of the inference module compute.  A natural number  *)
(* is a sequence of limbs in base 2^15, least significant first, without   *)
(* leading zero limbs; a double is [s, m, e] with value s * m * 2^e, m odd *)
(* (or zero) and below 2^53.  The values handled are far from the          *)
(* subnormal and the overflow range, and the sign of zero is not kept.     *)
(***************************************************************************)
LimbBits == 15

\* Bits of a double's significand
SignificandBits == 53

\* Limbs by which a dividend is extended before a division: the quotient
\* then has more bits than a significand
DivisionLimbs == 7

RECURSIVE Pow2(_)
Pow2(k) == IF k = 0 THEN 1 ELSE 2 * Pow2(k - 1)

LimbBase == Pow2(LimbBits)

RECURSIVE Strip(_)
\* a without leading zero limbs
Strip(a) ==
    IF a = <<>> \/ a[Len(a)] # 0 THEN a ELSE Strip(SubSeq(a, 1, Len(a) - 1))

RECURSIVE BigOfInt(_)
BigOfInt(n) == IF n = 0 THEN <<>> ELSE <<n % LimbBase>> \o BigOfInt(n \div LimbBase)

RECURSIVE BigToInt(_)
BigToInt(a) == IF a = <<>> THEN 0 ELSE a[1] + LimbBase * BigToInt(Tail(a))

RECURSIVE AddFrom(_, _, _, _)
AddFrom(a, b, i, carry) ==
    IF i > Len(a) /\ i > Len(b)
    THEN IF carry = 0 THEN <<>> ELSE <<carry>>
    ELSE LET sum == (IF i <= Len(a) THEN a[i] ELSE 0)
                      + (IF i <= Len(b) THEN b[i] ELSE 0) + carry
         IN  <<sum % LimbBase>> \o AddFrom(a, b, i + 1, sum \div LimbBase)

BigAdd(a, b) == AddFrom(a, b, 1, 0)

RECURSIVE SubFrom(_, _, _, _)
SubFrom(a, b, i, borrow) ==
    IF i > Len(a) THEN <<>>
    ELSE LET diff == a[i] - (IF i <= Len(b) THEN b[i] ELSE 0) - borrow
         IN  <<IF diff < 0 THEN diff + LimbBase ELSE diff>>
                 \o SubFrom(a, b, i + 1, IF diff < 0 THEN 1 ELSE 0)

\* a - b for a >= b
BigSub(a, b) == Strip(SubFrom(a, b, 1, 0))

RECURSIVE CmpFrom(_, _, _)
CmpFrom(a, b, i) ==
    IF i = 0 THEN 0
    ELSE IF a[i] < b[i] THEN -1
    ELSE IF a[i] > b[i] THEN 1
    ELSE CmpFrom(a, b, i - 1)

\* -1, 0 or 1 as a is below, equal to or above b
BigCmp(a, b) ==
    IF Len(a) < Len(b) THEN -1
    ELSE IF Len(a) > Len(b) THEN 1
    ELSE CmpFrom(a, b, Len(a))

RECURSIVE MulSmallFrom(_, _, _, _)
MulSmallFrom(a, k, i, carry) ==
    IF i > Len(a)
    THEN IF carry = 0 THEN <<>> ELSE <<carry>>
    ELSE LET prod == a[i] * k + carry
         IN  <<prod % LimbBase>> \o MulSmallFrom(a, k, i + 1, prod \div LimbBase)

\* a * k for 0 <= k < 2^15
BigMulSmall(a, k) == IF k = 0 THEN <<>> ELSE MulSmallFrom(a, k, 1, 0)

\* a * 2^(15 n)
BigShiftLimbs(a, n) == IF a = <<>> THEN <<>> ELSE [i \in 1..n |-> 0] \o a

RECURSIVE MulFrom(_, _, _)
MulFrom(a, b, i) ==
    IF i > Len(b) THEN <<>>
    ELSE BigAdd(BigShiftLimbs(BigMulSmall(a, b[i]), i - 1), MulFrom(a, b, i + 1))

BigMul(a, b) == MulFrom(a, b, 1)

RECURSIVE DivSmallFrom(_, _, _, _, _)
\* Long division from limb i down, with the remainder and the quotient limbs
\* so far
DivSmallFrom(a, d, i, rem, q) ==
    IF i = 0 THEN [q |-> Strip(q), r |-> rem]
    ELSE DivSmallFrom(a, d, i - 1, (rem * LimbBase + a[i]) % d,
                      <<(rem * LimbBase + a[i]) \div d>> \o q)

\* Quotient and remainder of a by d, 0 < d <= 2^15
BigDivSmall(a, d) == DivSmallFrom(a, d, Len(a), 0, <<>>)

RECURSIVE IntBits(_)
IntBits(n) == IF n = 0 THEN 0 ELSE 1 + IntBits(n \div 2)

\* Number of bits of a
BitLen(a) == IF a = <<>> THEN 0 ELSE LimbBits * (Len(a) - 1) + IntBits(a[Len(a)])

ShiftLeft(a, k) ==
    BigShiftLimbs(BigMulSmall(a, Pow2(k % LimbBits)), k \div LimbBits)

ShiftRight(a, k) ==
    LET n == k \div LimbBits
    IN  IF n >= Len(a) THEN <<>>
        ELSE BigDivSmall(SubSeq(a, n + 1, Len(a)), Pow2(k % LimbBits)).q

RECURSIVE IntTrailingZeros(_)
IntTrailingZeros(n) == IF n % 2 = 1 THEN 0 ELSE 1 + IntTrailingZeros(n \div 2)

RECURSIVE TrailingZerosFrom(_, _)
TrailingZerosFrom(a, i) ==
    IF a[i] = 0 THEN LimbBits + TrailingZerosFrom(a, i + 1)
    ELSE IntTrailingZeros(a[i])

FZero == [s |-> 1, m |-> <<>>, e |-> 0]

\* s * m * 2^e with the tz trailing zero bits of m moved into the exponent
Normalised(s, m, e, tz) == [s |-> s, m |-> ShiftRight(m, tz), e |-> e + tz]

\* The double s * m * 2^e for m below 2^53, in its one representation
Double(s, m, e) ==
    IF m = <<>> THEN FZero ELSE Normalised(s, m, e, TrailingZerosFrom(m, 1))

\* Bit i of m, bit 0 being the lowest
Bit(m, i) ==
    IF i \div LimbBits >= Len(m) THEN 0
    ELSE (m[(i \div LimbBits) + 1] \div Pow2(i % LimbBits)) % 2

\* Round to nearest, ties to even, when the t low bits of m are cut off:
\* upwards when they are above one half, or are one half and the bit above
\* them is set; sticky says that m stands for a value slightly above m
RoundsUp(m, t, sticky) ==
    /\ t > 0
    /\ Bit(m, t - 1) = 1
    /\ (sticky \/ Bit(m, t) = 1 \/ TrailingZerosFrom(m, 1) < t - 1)

\* The t low bits of m are cut off
FRoundAt(s, m, e, sticky, t) ==
    Double(s, BigAdd(ShiftRight(m, t), IF RoundsUp(m, t, sticky) THEN <<1>> ELSE <<>>),
           e + t)

\* The double nearest to s * (m + x) * 2^e, x being 0, or some value
\* strictly between 0 and 1 when sticky is set (m then has more than 54
\* bits)
FRound(s, m, e, sticky) ==
    IF m = <<>> THEN FZero
    ELSE FRoundAt(s, m, e, sticky,
                  IF BitLen(m) > SignificandBits THEN BitLen(m) - SignificandBits ELSE 0)

\* The double nearest to s * (x.q + x.r / d) * 2^e, x being the quotient and
\* the remainder of a division by d
FRoundQuotient(s, x, e) == FRound(s, x.q, e, x.r # 0)

\* The double nearest to n / d, 0 < d <= 2^15: a decimal literal, or the
\* value Math.random returned
FOfRat(n, d) ==
    FRoundQuotient(IF n < 0 THEN -1 ELSE 1,
                   BigDivSmall(BigShiftLimbs(BigOfInt(Abs(n)), DivisionLimbs), d),
                   -(LimbBits * DivisionLimbs))

\* The integer k >= 0, k below 2^31
FOfInt(k) == Double(1, BigOfInt(k), 0)

FNeg(a) == IF a.m = <<>> THEN a ELSE [a EXCEPT !.s = -a.s]

\* Math.abs
FAbs(a) == [a EXCEPT !.s = 1]

\* a * b
FMul(a, b) ==
    IF a.m = <<>> \/ b.m = <<>> THEN FZero
    ELSE FRound(a.s * b.s, BigMul(a.m, b.m), a.e + b.e, FALSE)

\* The smaller of two exponents
MinOf(x, y) == IF x < y THEN x ELSE y

\* sa * am * 2^e + sb * bm * 2^e
AddAligned(sa, am, sb, bm, e) ==
    FRound(IF sa = sb \/ BigCmp(am, bm) >= 0 THEN sa ELSE sb,
           IF sa = sb THEN BigAdd(am, bm)
           ELSE IF BigCmp(am, bm) = -1 THEN BigSub(bm, am)
           ELSE BigSub(am, bm),
           e, FALSE)

\* a + b
FAdd(a, b) ==
    IF a.m = <<>> THEN b
    ELSE IF b.m = <<>> THEN a
    ELSE AddAligned(a.s, ShiftLeft(a.m, a.e - MinOf(a.e, b.e)),
                    b.s, ShiftLeft(b.m, b.e - MinOf(a.e, b.e)), MinOf(a.e, b.e))

\* a - b
FSub(a, b) == FAdd(a, FNeg(b))

\* a / d for an integer d, 0 < d <= 2^15
FDivInt(a, d) ==
    FRoundQuotient(a.s, BigDivSmall(BigShiftLimbs(a.m, DivisionLimbs), d),
                   a.e - LimbBits * DivisionLimbs)

\* -1, 0 or 1 as |a| is below, equal to or above |b|
MagnitudeCmp(a, b) ==
    BigCmp(ShiftLeft(a.m, a.e - MinOf(a.e, b.e)), ShiftLeft(b.m, b.e - MinOf(a.e, b.e)))

\* a < b (the sign of zero is positive)
FLess(a, b) ==
    IF a.s # b.s THEN a.s = -1
    ELSE IF a.s = 1 THEN MagnitudeCmp(a, b) = -1
    ELSE MagnitudeCmp(a, b) = 1

\* a <= b
FLeq(a, b) == ~FLess(b, a)

\* Math.max and Math.min
FMax(a, b) == IF FLess(a, b) THEN b ELSE a

FMin(a, b) == IF FLess(b, a) THEN b ELSE a

\* floor(m / 2^k + 1/2) for k > 0
RoundHalfUp(m, k) == BigToInt(ShiftRight(BigAdd(m, ShiftLeft(<<1>>, k - 1)), k))

\* Math.round of a double: the integer floor(a + 1/2), computed exactly;
\* for a negative a it is -floor((m - 1) / 2^k + 1/2), a being -m / 2^k
FMathRound(a) ==
    IF a.e >= 0 THEN a.s * BigToInt(ShiftLeft(a.m, a.e))
    ELSE a.s * RoundHalfUp(IF a.s = 1 THEN a.m ELSE BigSub(a.m, <<1>>), -a.e)

\* Limb i of a, 0 above its highest limb
Limb(a, i) == IF i <= Len(a) THEN a[i] ELSE 0

\* The largest digit d <= guess with b * d <= r
RECURSIVE QuotientDigit(_, _, _)
QuotientDigit(r, b, guess) ==
    IF BigCmp(BigMulSmall(b, guess), r) = 1 THEN QuotientDigit(r, b, guess - 1) ELSE guess

\* The first guess of the digit of r divided by b, r being below b * 2^15 and
\* the highest limb of b at least 2^14: at most two above the digit
DigitGuess(r, b) ==
    MinOf((Limb(r, Len(b) + 1) * LimbBase + Limb(r, Len(b))) \div b[Len(b)], LimbBase - 1)

\* Long division of a by b, limb i of a being the next one brought down,
\* rem the remainder of the limbs above it and q the digits found; the
\* result is the quotient, and r says whether there is a remainder
RECURSIVE DivFrom(_, _, _, _, _)
DivPut(a, b, i, r, q, d) == DivFrom(a, b, i - 1, BigSub(r, BigMulSmall(b, d)), <<d>> \o q)

DivDown(a, b, i, r, q) ==
    IF BigCmp(r, b) = -1 THEN DivFrom(a, b, i - 1, r, <<0>> \o q)
    ELSE DivPut(a, b, i, r, q, QuotientDigit(r, b, DigitGuess(r, b)))

DivFrom(a, b, i, rem, q) ==
    IF i = 0 THEN [q |-> Strip(q), r |-> IF rem = <<>> THEN 0 ELSE 1]
    ELSE DivDown(a, b, i, Strip(<<a[i]>> \o rem), q)

\* The limbs of a above the Len(b) - 1 lowest are brought down one by one;
\* a has more limbs than b
DivNormalised(a, b) ==
    DivFrom(a, b, Len(a) - Len(b) + 1, SubSeq(a, Len(a) - Len(b) + 2, Len(a)), <<>>)

\* a divided by b, b not zero: both are shifted so that the highest limb of b
\* has its highest bit set
BigDiv(a, b) ==
    DivNormalised(ShiftLeft(a, LimbBits - IntBits(b[Len(b)])),
                  ShiftLeft(b, LimbBits - IntBits(b[Len(b)])))

\* Limbs by which the quotient of two significands is to be longer than a
\* significand can be short of the divisor: the quotient then has more than
\* 54 bits
QuotientLimbs == 5

\* The quotient of am * 2^(15 n) by bm, rounded
FDivExtended(s, am, bm, e, n) ==
    FRoundQuotient(s, BigDiv(BigShiftLimbs(am, n), bm), e - LimbBits * n)

\* a / b, b not zero; a division by a power of two is exact
FDiv(a, b) ==
    IF a.m = <<>> THEN FZero
    ELSE IF b.m = <<1>> THEN [s |-> a.s * b.s, m |-> a.m, e |-> a.e - b.e]
    ELSE FDivExtended(a.s * b.s, a.m, b.m, a.e - b.e, Len(b.m) - Len(a.m) + QuotientLimbs)

\* The integer k as a double, |k| below 2^31
FOfSigned(k) == Double(IF k < 0 THEN -1 ELSE 1, BigOfInt(Abs(k)), 0)

\* The double as an integer, the fraction cut off
FTruncate(a) ==
    IF a.e >= 0 THEN a.s * BigToInt(ShiftLeft(a.m, a.e))
    ELSE a.s * BigToInt(ShiftRight(a.m, -a.e))

\* a * 2^k
FScale(a, k) == IF a.m = <<>> THEN a ELSE [a EXCEPT !.e = @ + k]

FOne == [s |-> 1, m |-> <<1>>, e |-> 0]

FTwo == [s |-> 1, m |-> <<1>>, e |-> 1]

FHalf == [s |-> 1, m |-> <<1>>, e |-> -1]

(***************************************************************************)
(* Math.exp, as V8 computes it (the exp of fdlibm 5.3, base/ieee754.cc):   *)
(* the argument is reduced to r = x - k * ln2 with |r| <= 0.5 * ln2, exp(r) *)
(* comes from a rational approximation, and the result is scaled by 2^k    *)
(***************************************************************************)
\* ln2HI: 6.93147180369123816490e-01
ExpLn2Hi == [s |-> 1, m |-> <<6135, 25316, 2>>, e |-> -32]

\* ln2LO: 1.90821492927058770002e-10
ExpLn2Lo == [s |-> 1, m |-> <<7739, 13689, 29662, 104>>, e |-> -84]

\* invln2: 1.44269504088896338700e+00
ExpInvLn2 == [s |-> 1, m |-> <<16767, 25899, 10894, 92>>, e |-> -51]

\* P1 ... P5: 1.66666666666666019037e-01, -2.77777777770155933842e-03,
\* 6.61375632143793436117e-05, -1.65339022054652515390e-06,
\* 4.13813679705723846039e-08
ExpP ==
    << [s |-> 1, m |-> <<10911, 21845, 10922, 85>>, e |-> -54],
       [s |-> -1, m |-> <<15763, 11645, 1456, 182>>, e |-> -61],
       [s |-> 1, m |-> <<30603, 22418, 22122, 34>>, e |-> -64],
       [s |-> -1, m |-> <<27633, 2980, 29959, 221>>, e |-> -72],
       [s |-> 1, m |-> <<27213, 11863, 3546, 11>>, e |-> -73] >>

\* E: 2.718281828459045
ExpE == [s |-> 1, m |-> <<22377, 5672, 31786, 173>>, e |-> -51]

\* The least doubles whose high word is above 0x3fd62e42 (0.5 ln2), at
\* least 0x3ff0a2b2 (1.5 ln2) and at least 0x3e300000 (2^-28)
ExpHalfLn2 == [s |-> 1, m |-> <<11843, 44>>, e |-> -22]

ExpOneAndHalfLn2 == [s |-> 1, m |-> <<20825, 16>>, e |-> -19]

ExpTiny == [s |-> 1, m |-> <<1>>, e |-> -28]

\* P[i] + t * (P[i+1] + t * (... + t * P5))
RECURSIVE ExpHorner(_, _)
ExpHorner(t, i) ==
    IF i = Len(ExpP) THEN ExpP[i] ELSE FAdd(ExpP[i], FMul(t, ExpHorner(t, i + 1)))

\* c = x - t * (P1 + t * (P2 + t * (P3 + t * (P4 + t * P5)))), t being x * x
ExpC(r, t) == FSub(r, FMul(t, ExpHorner(t, 1)))

\* one - ((x * c) / (c - 2.0) - x) for k = 0, and for the other k
\* y = one - ((lo - (x * c) / (2.0 - c)) - hi), scaled by 2^k
ExpResult(r, c, hi, lo, k) ==
    IF k = 0 THEN FSub(FOne, FSub(FDiv(FMul(r, c), FSub(c, FTwo)), r))
    ELSE FScale(FSub(FOne, FSub(FSub(lo, FDiv(FMul(r, c), FSub(FTwo, c))), hi)), k)

\* The reduced argument is r
ExpKernel(r, hi, lo, k) == ExpResult(r, ExpC(r, FMul(r, r)), hi, lo, k)

\* x = hi - lo
ExpReduced(hi, lo, k) == ExpKernel(FSub(hi, lo), hi, lo, k)

\* hi = x - t * ln2HI[0], lo = t * ln2LO[0], t being k as a double
ExpReducedBy(x, k) ==
    ExpReduced(FSub(x, FMul(FOfSigned(k), ExpLn2Hi)), FMul(FOfSigned(k), ExpLn2Lo), k)

\* exp(x) of ieee754.cc for |x| below 709
Ieee754Exp(x) ==
    IF FLess(FAbs(x), ExpHalfLn2)
    THEN IF FLess(FAbs(x), ExpTiny) THEN FAdd(FOne, x)
         ELSE ExpKernel(x, FZero, FZero, 0)
    ELSE IF FLess(FAbs(x), ExpOneAndHalfLn2)
    THEN IF x = FOne THEN ExpE
         ELSE IF x.s = 1 THEN ExpReduced(FSub(x, ExpLn2Hi), ExpLn2Lo, 1)
         ELSE ExpReduced(FAdd(x, ExpLn2Hi), FNeg(ExpLn2Lo), -1)
    ELSE ExpReducedBy(x, FTruncate(FAdd(FMul(ExpInvLn2, x),
                                        IF x.s = 1 THEN FHalf ELSE FNeg(FHalf))))

RECURSIVE Pow10(_)
Pow10(k) == IF k = 0 THEN 1 ELSE 10 * Pow10(k - 1)

RECURSIVE DigitsValue(_)
DigitsValue(ds) ==
    IF ds = <<>> THEN 0
    ELSE 10 * DigitsValue(SubSeq(ds, 1, Len(ds) - 1)) + DigitVal(ds[Len(ds)])


(***************************************************************************)
(* Values that are not numbers or records of the program                   *)
(***************************************************************************)
null == [null |-> TRUE]

NaN == [nan |-> TRUE]

\* The smallest position j >= i of s that is past the end or not in class
SkipWhile(s, i, class) ==
    CHOOSE j \in i..(Len(s) + 1) :
        /\ (j = Len(s) + 1 \/ s[j] \notin class)
        /\ \A k \in i..(j - 1) : s[k] \in class

\* parseFloat on a captured group: optional sign, digits, optional fraction;
\* the longest numeric prefix is converted and the rest is ignored; with no
\* digit at all the result is NaN.
parseFloat(s) ==
    LET neg == Len(s) >= 1 /\ s[1] = "-"
        start == IF neg THEN 2 ELSE 1
        i1 == SkipWhile(s, start, DigitClass)
        intPart == SubSeq(s, start, i1 - 1)
        hasDot == i1 <= Len(s) /\ s[i1] = "."
        i2 == IF hasDot THEN SkipWhile(s, i1 + 1, DigitClass) ELSE i1
        frac == IF hasDot THEN SubSeq(s, i1 + 1, i2 - 1) ELSE <<>>
        mag == DigitsValue(intPart) * Pow10(Len(frac)) + DigitsValue(frac)
    IN  IF intPart = <<>> /\ frac = <<>> THEN NaN
        ELSE Rat(IF neg THEN -mag ELSE mag, Pow10(Len(frac)))

(***************************************************************************)
(* Arduino serial parser                                                   *)
(***************************************************************************)
LitMoisture == <<"M", "o", "i", "s", "t", "u", "r", "e", ":">>
LitMn == <<"M", "n", "=">>
LitTilt == <<"T", "i", "l", "t", ":">>
LitTn == <<"T", "n", "=">>
LitVibration == <<"V", "i", "b", "r", "a", "t", "i", "o", "n", ":">>
LitVn == <<"V", "n", "=">>
LitRisk == <<"R", "i", "s", "k", "=">>
LitLevel == <<"L", "E", "V", "E", "L", ":">>
LitBar == <<"|">>

\* Regex elements: a literal, \s* (min 0) or \s+ (min 1), a capturing
\* (-?[\d.]+) (sign TRUE) or ([\d.]+) (sign FALSE), a capturing (\w+).
ReLit(v) == [t |-> "lit", v |-> v, min |-> 0, sign |-> FALSE]
ReWs(min) == [t |-> "ws", v |-> <<>>, min |-> min, sign |-> FALSE]
ReNum(sign) == [t |-> "num", v |-> <<>>, min |-> 1, sign |-> sign]
ReWord == [t |-> "word", v |-> <<>>, min |-> 1, sign |-> FALSE]

ARDUINO_REGEX ==
    << ReLit(LitMoisture), ReWs(0), ReNum(TRUE), ReWs(1), ReLit(LitMn), ReNum(FALSE),
       ReWs(0), ReLit(LitBar), ReWs(0),
       ReLit(LitTilt), ReWs(0), ReNum(TRUE), ReWs(1), ReLit(LitTn), ReNum(FALSE),
       ReWs(0), ReLit(LitBar), ReWs(0),
       ReLit(LitVibration), ReWs(0), ReNum(TRUE), ReWs(1), ReLit(LitVn), ReNum(FALSE),
       ReWs(0), ReLit(LitBar), ReWs(0),
       ReLit(LitRisk), ReNum(FALSE),
       ReWs(0), ReLit(LitBar), ReWs(0),
       ReLit(LitLevel), ReWs(0), ReWord >>

NoMatch == [ok |-> FALSE, caps |-> <<>>]

\* Match the elements pat at position i of s.  Every quantifier is greedy
\* and is followed by an element that starts outside its class, so the
\* greedy choice is the only one that can succeed.
RECURSIVE MatchFrom(_, _, _, _)
MatchFrom(pat, s, i, caps) ==
    IF pat = <<>> THEN [ok |-> TRUE, caps |-> caps]
    ELSE
      LET e == Head(pat)
          rest == Tail(pat)
      IN  CASE e.t = "lit" ->
                 IF /\ i + Len(e.v) - 1 <= Len(s)
                    /\ SubSeq(s, i, i + Len(e.v) - 1) = e.v
                 THEN MatchFrom(rest, s, i + Len(e.v), caps)
                 ELSE NoMatch
            [] e.t = "ws" ->
                 LET j == SkipWhile(s, i, SpaceClass)
                 IN  IF j - i >= e.min THEN MatchFrom(rest, s, j, caps) ELSE NoMatch
            [] e.t = "num" ->
                 LET i0 == IF e.sign /\ i <= Len(s) /\ s[i] = "-" THEN i + 1 ELSE i
                     j == SkipWhile(s, i0, NumClass)
                 IN  IF j > i0
                     THEN MatchFrom(rest, s, j, Append(caps, SubSeq(s, i, j - 1)))
                     ELSE NoMatch
            [] e.t = "word" ->
                 LET j == SkipWhile(s, i, WordClass)
                 IN  IF j > i
                     THEN MatchFrom(rest, s, j, Append(caps, SubSeq(s, i, j - 1)))
                     ELSE NoMatch

\* String.prototype.match with a non-global regex: the leftmost position at
\* which the pattern matches (the pattern is not anchored).
match(line, pat) ==
    LET starts == {i \in 1..(Len(line) + 1) : MatchFrom(pat, line, i, <<>>).ok}
    IN  IF starts = {} THEN NoMatch
        ELSE MatchFrom(pat, line, CHOOSE i \in starts : \A j \in starts : i <= j, <<>>)

LevelLOW == <<"L", "O", "W">>
LevelMEDIUM == <<"M", "E", "D", "I", "U", "M">>
LevelHIGH == <<"H", "I", "G", "H">>

\* parseArduinoLine that returns null for a level word that is none of
\* LOW, MEDIUM, HIGH; C17 does not hold of it
parseArduinoLine_RejectUnknownLevel(line) ==
    LET m == match(line, ARDUINO_REGEX)
    IN  IF ~m.ok THEN null
        ELSE LET level == toUpperCase(trim(m.caps[8]))
             IN  IF level \notin {LevelLOW, LevelMEDIUM, LevelHIGH} THEN null
                 ELSE [ moistureRaw |-> parseFloat(m.caps[1]),
                        Mn |-> parseFloat(m.caps[2]),
                        tilt |-> parseFloat(m.caps[3]),
                        Tn |-> parseFloat(m.caps[4]),
                        vibrationRaw |-> parseFloat(m.caps[5]),
                        Vn |-> parseFloat(m.caps[6]),
                        R |-> parseFloat(m.caps[7]),
                        level |-> level ]

parseArduinoLine(line) ==
    LET m == match(line, ARDUINO_REGEX)
    IN  IF ~m.ok THEN null
        ELSE LET level == toUpperCase(trim(m.caps[8]))
             IN  [ moistureRaw |-> parseFloat(m.caps[1]),
                   Mn |-> parseFloat(m.caps[2]),
                   tilt |-> parseFloat(m.caps[3]),
                   Tn |-> parseFloat(m.caps[4]),
                   vibrationRaw |-> parseFloat(m.caps[5]),
                   Vn |-> parseFloat(m.caps[6]),
                   R |-> parseFloat(m.caps[7]),
                   level |-> IF level \in {LevelLOW, LevelMEDIUM, LevelHIGH}
                             THEN level ELSE LevelLOW ]


(***************************************************************************)
(* Simulated data                                                          *)
(***************************************************************************)
\* Math.random is a generator with hidden state: the model's generator
\* cycles through RandomValues (each in [0, 1)), rng being the number of
\* values drawn so far modulo the period.
RandomValues ==
    << Rat(59, 80), Rat(1, 2), Rat(0, 1), Rat(1, 4), Rat(9, 10), Rat(999, 1000),
       Rat(1, 10) >>

RandomPeriod == Len(RandomValues)

MathRandom(g, k) == RandomValues[((g + k) % RandomPeriod) + 1]

\* Math.max(0, Math.min(1, x)) on doubles
FClamp01(x) == FMax(FZero, FMin(FOfInt(1), x))

\* Math.round(x * 100) / 100 on doubles: k / 100 stands for the double
\* nearest to it
FRound2(x) == Rat(FMathRound(FMul(x, FOfInt(100))), 100)

\* Mn, Tn and Vn of simulateReading, with the three raw values
Normalise(moistureRaw, tilt, vibrationRaw) ==
    [ moistureRaw |-> moistureRaw,
      tilt |-> tilt,
      vibrationRaw |-> vibrationRaw,
      Mn |-> FClamp01(FDivInt(FSub(moistureRaw, FOfInt(200)), 600)),
      Tn |-> FClamp01(FDivInt(FAbs(tilt), 45)),
      Vn |-> FClamp01(FDivInt(vibrationRaw, 1023)) ]

\* The doubles simulateReading computes from the three values Math.random
\* returns, in call order; each value n / d is the double nearest to it
SimulatedRaw(u1, u2, u3) ==
    Normalise(FAdd(FOfInt(200), FMul(FOfRat(u1.n, u1.d), FOfInt(600))),
              FMul(FSub(FOfRat(u2.n, u2.d), FOfRat(5, 10)), FOfInt(60)),
              FMul(FOfRat(u3.n, u3.d), FOfInt(300)))

\* 0.40 * Mn + 0.35 * Tn + 0.25 * Vn
FWeightedSum(Mn, Tn, Vn) ==
    FAdd(FAdd(FMul(FOfRat(40, 100), Mn), FMul(FOfRat(35, 100), Tn)),
         FMul(FOfRat(25, 100), Vn))

\* R of the raw values
ScoreOf(raw) == FWeightedSum(raw.Mn, raw.Tn, raw.Vn)

\* The score simulateReading computes, before it rounds it
SimulatedScore(u1, u2, u3) == ScoreOf(SimulatedRaw(u1, u2, u3))

\* The level and the record simulateReading returns, with the raw values and
\* the score
ReadingWith(raw, R) ==
    [ moistureRaw |-> RInt(FMathRound(raw.moistureRaw)),
      tilt |-> FRound2(raw.tilt),
      vibrationRaw |-> RInt(FMathRound(raw.vibrationRaw)),
      Mn |-> FRound2(raw.Mn),
      Tn |-> FRound2(raw.Tn),
      Vn |-> FRound2(raw.Vn),
      R |-> FRound2(R),
      level |-> IF FLeq(FOfRat(6, 10), R) THEN LevelHIGH
                ELSE IF FLeq(FOfRat(3, 10), R) THEN LevelMEDIUM
                ELSE LevelLOW ]

ReadingOf(raw) == ReadingWith(raw, ScoreOf(raw))

\* simulateReading with the three values Math.random returns, in call order
simulateReading(u1, u2, u3) == ReadingOf(SimulatedRaw(u1, u2, u3))

\* The reading simulateReading returns in each state of the generator
SimulatedTable ==
    SubSeq([ j \in 1..RandomPeriod |->
               simulateReading(MathRandom(j - 1, 0), MathRandom(j - 1, 1),
                               MathRandom(j - 1, 2)) ], 1, RandomPeriod)

\* The reading simulateReading returns when g values have been drawn
SimulatedAt(g) == SimulatedTable[(g % RandomPeriod) + 1]

(***************************************************************************)
(* Time labels.  A clock value is the local time of day in seconds.        *)
(***************************************************************************)
SecondsPerDay == 86400

RECURSIVE NumStr(_)
\* String(n) for n >= 0
NumStr(n) ==
    IF n < 10 THEN <<Digits[n + 1]>>
    ELSE NumStr(n \div 10) \o <<Digits[(n % 10) + 1]>>

\* String.prototype.padStart(2, '0')
padStart2(s) == IF Len(s) < 2 THEN <<"0">> \o s ELSE s

\* `${HH}:${MM}:${SS}` of the clock value t
TimeStr(t) ==
    LET tt == t % SecondsPerDay
    IN  padStart2(NumStr(tt \div 3600)) \o <<":">> \o
        padStart2(NumStr((tt \div 60) % 60)) \o <<":">> \o
        padStart2(NumStr(tt % 60))

nowTimeStr(t) == TimeStr(t)

ChartPointOf(r, time) == [time |-> time, Mn |-> r.Mn, Tn |-> r.Tn, Vn |-> r.Vn]

ActivityEntryOf(r, time) ==
    [ time |-> time, moistureRaw |-> r.moistureRaw, tilt |-> r.tilt,
      vibrationRaw |-> r.vibrationRaw, Mn |-> r.Mn, Tn |-> r.Tn, Vn |-> r.Vn,
      R |-> r.R, level |-> r.level ]

\* for (let i = 60; i >= 0; i--): the number of the first iteration
HistoryStart == 60

\* Array.prototype.slice(0, n)
SliceHead(s, n) == SubSeq(s, 1, IF Len(s) < n THEN Len(s) ELSE n)

\* Array.prototype.slice(-n)
SliceTail(s, n) == SubSeq(s, (IF Len(s) < n THEN 0 ELSE Len(s) - n) + 1, Len(s))

\* buildSimulatedHistory at clock value t with the generator in state g.
\* Iteration k (k = 1 .. HistoryStart + 1) has i = HistoryStart + 1 - k, is
\* labelled two seconds per step before now and makes the k-th call of
\* simulateReading.
buildSimulatedHistory(t, g) ==
    LET iOf(k) == HistoryStart + 1 - k
        rOf(k) == SimulatedAt(g + 3 * (k - 1))
        tOf(k) == TimeStr(t + SecondsPerDay - 2 * iOf(k))
        picked == SelectSeq(Positions(HistoryStart + 1), LAMBDA k : iOf(k) % 6 = 0)
    IN  [ chart |-> SubSeq([k \in 1..(HistoryStart + 1) |->
                                ChartPointOf(rOf(k), tOf(k))], 1, HistoryStart + 1),
          log |-> SliceHead([j \in DOMAIN picked |->
                                ActivityEntryOf(rOf(picked[j]), tOf(picked[j]))], 10) ]

(***************************************************************************)
(* Aggregation: applyReading's two state updaters                          *)
(***************************************************************************)
ChartCapacity == 60

LogCapacity == 20

\* ChartAppend that keeps the oldest points when the series is full; C10
\* does not hold of it
ChartAppend_KeepOldest(prev, r, time) ==
    LET next == Append(prev, ChartPointOf(r, time))
    IN  IF Len(next) > ChartCapacity THEN SliceHead(next, ChartCapacity) ELSE next

\* setChartData(prev => ...)
ChartAppend(prev, r, time) ==
    LET next == Append(prev, ChartPointOf(r, time))
    IN  IF Len(next) > ChartCapacity THEN SliceTail(next, ChartCapacity) ELSE next

\* setActivityLog(prev => ...)
LogPrepend(prev, r, time) ==
    SliceHead(<<ActivityEntryOf(r, time)>> \o prev, LogCapacity)

(***************************************************************************)
(* TextDecoder.decode(value) without the stream option.  A chunk is a      *)
(* sequence of bytes; an ASCII byte is written as its character, and the   *)
(* two bytes of one two-byte UTF-8 character are ByteLead and ByteCont.    *)
(* Every call decodes its chunk on its own: a lead byte without its        *)
(* continuation, or a continuation without its lead, decodes to U+FFFD.    *)
(***************************************************************************)
ByteLead == "<C3>"

ByteCont == "<A9>"

CharEAcute == "<U+00E9>"

CharReplacement == "<U+FFFD>"

decode(value) ==
    LET \* the second byte of a well-formed pair
        second(i) == i > 1 /\ value[i] = ByteCont /\ value[i - 1] = ByteLead
        starts == SelectSeq(Positions(Len(value)), LAMBDA i : ~second(i))
        char(i) ==
            IF value[i] = ByteLead
            THEN IF i < Len(value) /\ value[i + 1] = ByteCont
                 THEN CharEAcute ELSE CharReplacement
            ELSE IF value[i] = ByteCont THEN CharReplacement
            ELSE value[i]
    IN  [k \in DOMAIN starts |-> char(starts[k])]

(***************************************************************************)
(* The read loop's handling of one chunk (startReadLoop, lines 865-885)    *)
(***************************************************************************)
\* ConsumeChunk without the pending fragment: every chunk is split on its
\* own; C6 does not hold of it
ConsumeChunk_NoCarry(buffer, value) ==
    LET lines == split(decode(value))
    IN  [ buffer |-> lines[Len(lines)],
          lines |-> SubSeq(lines, 1, Len(lines) - 1) ]

\* ConsumeChunk whose lines are trimmed as they leave the split; C26 does
\* not hold of it
ConsumeChunk_TrimmedLines(buffer, value) ==
    LET lines == split(buffer \o decode(value))
    IN  [ buffer |-> lines[Len(lines)],
          lines |-> [i \in 1..(Len(lines) - 1) |-> trim(lines[i])] ]

\* lineBufferRef.current += chunk; lines = split('\n'); buffer = lines.pop()
ConsumeChunk(buffer, value) ==
    LET lines == split(buffer \o decode(value))
    IN  [ buffer |-> lines[Len(lines)],
          lines |-> SubSeq(lines, 1, Len(lines) - 1) ]

\* for (const rawLine of lines): the trimmed lines that are not empty, in
\* order; these are the lines handed to parseArduinoLine
LinesToParser(lines) ==
    SelectSeq([i \in DOMAIN lines |-> trim(lines[i])], LAMBDA line : line # <<>>)

\* applyReading on the aggregate view [latest, chartData, activityLog, lastUpdate]
applyReading(view, r, time) ==
    [ latest |-> r,
      lastUpdate |-> time,
      chartData |-> ChartAppend(view.chartData, r, time),
      activityLog |-> LogPrepend(view.activityLog, r, time) ]

\* ApplyLines leaving the for loop at the first line that does not parse;
\* C8 does not hold of it
RECURSIVE ApplyLines_StopAtFailure(_, _, _)
ApplyLines_StopAtFailure(view, lines, time) ==
    IF lines = <<>> THEN view
    ELSE LET parsed == parseArduinoLine(Head(lines))
         IN  IF parsed = null
             THEN view
             ELSE ApplyLines_StopAtFailure(applyReading(view, parsed, time), Tail(lines),
                                           time)

\* The body of the for loop over the lines of one chunk: a line that does
\* not parse is skipped (continue), a parsed one is applied.
RECURSIVE ApplyLines(_, _, _)
ApplyLines(view, lines, time) ==
    IF lines = <<>> THEN view
    ELSE LET parsed == parseArduinoLine(Head(lines))
         IN  IF parsed = null
             THEN ApplyLines(view, Tail(lines), time)
             ELSE ApplyLines(applyReading(view, parsed, time), Tail(lines), time)

(***************************************************************************)
(* Wire lines and chunks the transport delivers                            *)
(***************************************************************************)
\* Moisture: 612  Mn=0.69 | Tilt: 12.34  Tn=0.27 | Vibration: 308  Vn=0.30 | Risk=0.45 | LEVEL: MEDIUM
WireLine(m, mn, t, tn, v, vn, r, level) ==
    LitMoisture \o <<" ">> \o m \o <<" ", " ">> \o LitMn \o mn \o <<" ">> \o LitBar \o <<" ">> \o
    LitTilt \o <<" ">> \o t \o <<" ", " ">> \o LitTn \o tn \o <<" ">> \o LitBar \o <<" ">> \o
    LitVibration \o <<" ">> \o v \o <<" ", " ">> \o LitVn \o vn \o <<" ">> \o LitBar \o <<" ">> \o
    LitRisk \o r \o <<" ">> \o LitBar \o <<" ">> \o LitLevel \o <<" ">> \o level

ExampleLine ==
    WireLine(<<"6", "1", "2">>, <<"0", ".", "6", "9">>, <<"1", "2", ".", "3", "4">>, <<"0", ".", "2", "7">>, <<"3", "0", "8">>, <<"0", ".", "3", "0">>, <<"0", ".", "4", "5">>,
             LevelMEDIUM)

\* A line with no Tilt field
BrokenLine == LitMoisture \o <<" ", "6", "1", "2", " ", " ">> \o LitMn \o <<"0", ".", "6", "9">>

\* Where ExampleLine is cut when it arrives in two chunks
CutAt == 20

\* The chunks a read can deliver: the head of a record; its tail, the line
\* separator and the start of the next line; a broken line followed by a
\* whole record in the same chunk; a broken line alone.
Chunks ==
    { SubSeq(ExampleLine, 1, CutAt),
      SubSeq(ExampleLine, CutAt + 1, Len(ExampleLine)) \o <<"\r", "\n", "M">>,
      BrokenLine \o <<"\n">> \o ExampleLine \o <<"\n">>,
      BrokenLine \o <<"\n">> }


(***************************************************************************)
(* Bounds of the model                                                     *)
(***************************************************************************)
\* connect() calls in a run
MaxConnects == 3

\* disconnect() calls in a run
MaxDisconnects == 2

\* connect() and disconnect() calls in a run of the whole page, where every
\* failure, chunk and timer is drawn as well
MaxPageConnects == 2

MaxPageDisconnects == 2

\* chunks delivered by the transport in a run
MaxReads == 2

\* chunks delivered in a run that has up to MaxConnects sessions
MaxLoopReads == 1

\* firings of the two-second simulated-data timer in a run
MaxSimTicks == 1

\* serial ports the user can pick
NumPorts == 2

Ports == 1..NumPorts

\* 12:34:56
StartTime == 45296

\* Seconds between one event and a chunk's arrival
ChunkDelays == {1}

\* setInterval(..., 2000): seconds from one firing to the next
SimulatedPeriod == 2

(***************************************************************************)
(* Failures the transport reports                                          *)
(***************************************************************************)
MsgConnectionLost ==
    "Connection lost. Device may have been turned off or moved out of range."

MsgOpenFallback == "Failed to open port. Ensure HC-05 is paired and not in use."

MsgNoPortSelected == "No port selected by the user."

Failure(name, hasMessage, message) ==
    [name |-> name, hasMessage |-> hasMessage, message |-> message]

\* navigator.serial.requestPort() rejections: the chooser was dismissed
\* (reported under either name), or the request was refused
RequestPortFailures ==
    { Failure("NotFoundError", TRUE, MsgNoPortSelected),
      Failure("AbortError", TRUE, "Error: No port selected by the user. Try again."),
      Failure("SecurityError", TRUE, "Access to the serial API is denied.") }

\* port.open() on a port that is not closed
AlreadyOpen == Failure("InvalidStateError", TRUE, "The port is already open.")

\* port.open() rejections on a closed port: a failure with a message and a
\* thrown value that carries none
OpenFailures ==
    { Failure("NetworkError", TRUE, "Failed to open serial port."),
      Failure("", FALSE, "") }

\* No failure: the call has not failed
NoFailure == Failure("none", FALSE, "")

\* String.prototype.includes: sub occurs somewhere in s
includes(s, sub) ==
    \E i \in 0..(Len(s) - Len(sub)) : SubSeq(s, i + 1, i + Len(sub)) = sub

\* err?.message?.includes('No port selected')
IncludesNoPortSelected(err) ==
    err.hasMessage /\ includes(err.message, "No port selected")

(***************************************************************************)
(* State                                                                   *)
(***************************************************************************)
VARIABLES
    connectionState,  \* useState<ConnectionState>
    errorMessage,     \* useState('')
    deviceName,       \* useState('')
    latest,           \* useState<SensorReading>
    chartData,        \* useState<ChartPoint[]>
    activityLog,      \* useState<ActivityEntry[]>
    lastUpdate,       \* useState('--:--:--')
    portRef,          \* useRef: the port of the session, 0 for null
    readerRef,        \* useRef: the reader last acquired, named by its loop, 0 for null
    readingRef,       \* useRef(false): the cancellation flag
    lineBufferRef,    \* useRef(''): the pending line fragment
    connects,         \* the handleConnect calls, in call order, with their outcome
    disconnects,      \* the handleDisconnect calls, in call order
    loops,            \* the startReadLoop calls, one per connect call
    portState,        \* per port: "closed", "opening", "opened", "closing"
    locked,           \* per port: its readable stream is locked to a reader
    readable,         \* per port: port.readable is not null
    shown,            \* the connectionState of the last render, or "unmounted"
    simInterval,      \* the setInterval of the simulated-data effect is set
    simDue,           \* the clock at which that interval fires next, 0 when it is not set
    rng,              \* state of Math.random
    now,              \* the clock
    reads,            \* chunks delivered so far
    simTicks,         \* timer firings so far
    trial,            \* a function exercised on its own: its inputs and outputs
    _model,           \* let _model: MLModelMeta | null
    _loadPromise,     \* let _loadPromise: Promise<void> | null, named by its fetch, 0 for null
    fetches,          \* the fetch('/model_weights.json') calls, in call order
    loadCalls,        \* the loadModel() calls, in call order, with the promise each returned
    predicted         \* what the last predictRisk call gave its caller

uiVars == <<connectionState, errorMessage, deviceName>>
viewVars == <<latest, chartData, activityLog, lastUpdate>>
refVars == <<portRef, readerRef, readingRef, lineBufferRef>>
taskVars == <<connects, disconnects, loops>>
portVars == <<portState, locked, readable>>
simVars == <<simInterval, simDue, rng>>
envVars == <<now, reads, simTicks, trial>>
mlVars == <<_model, _loadPromise, fetches, loadCalls, predicted>>

vars == <<uiVars, viewVars, refVars, taskVars, portVars, simVars, envVars, mlVars, shown>>

View ==
    [ latest |-> latest, lastUpdate |-> lastUpdate,
      chartData |-> chartData, activityLog |-> activityLog ]

\* The component is mounted: a state setter called after the unmount
\* changes nothing
Mounted == shown # "unmounted"

SetView(view) ==
    IF Mounted
    THEN /\ latest' = view.latest
         /\ lastUpdate' = view.lastUpdate
         /\ chartData' = view.chartData
         /\ activityLog' = view.activityLog
    ELSE UNCHANGED <<latest, lastUpdate, chartData, activityLog>>

setConnectionState(value) ==
    connectionState' = IF Mounted THEN value ELSE connectionState

setErrorMessage(value) == errorMessage' = IF Mounted THEN value ELSE errorMessage

setDeviceName(value) == deviceName' = IF Mounted THEN value ELSE deviceName

InitialReading ==
    [ moistureRaw |-> RInt(0), tilt |-> RInt(0), vibrationRaw |-> RInt(0),
      Mn |-> RInt(0), Tn |-> RInt(0), Vn |-> RInt(0), R |-> RInt(0),
      level |-> LevelLOW ]

\* The page runs: no function is exercised on its own
NoTrial == [of |-> "page"]

NoLoop == [pc |-> "none", port |-> 0, result |-> "none", value |-> <<>>]

\* The values Math.random can be at when the page loads
InitialRng == {0}

\* The simulated-data effect, useEffect(..., [isConnected, applyReading]),
\* when it runs with isConnected false: the view is seeded with the
\* simulated history and the two-second interval is set.
SeededView(t, g) ==
    LET h == buildSimulatedHistory(t, g)
    IN  [ latest |-> SimulatedAt(g + 3 * (HistoryStart + 1)),
          lastUpdate |-> nowTimeStr(t),
          chartData |-> h.chart,
          activityLog |-> h.log ]

\* Math.random after the effect's HistoryStart + 2 calls of simulateReading
SeededRng(g) == (g + 3 * (HistoryStart + 2)) % RandomPeriod

\* The clock values a run can reach, and the seeded view at each of them
ClockValues == StartTime..(StartTime + MaxReads + SimulatedPeriod * MaxSimTicks)

SeededTable ==
    SubSeq([i \in 1..Cardinality(ClockValues) |->
               SubSeq([j \in 1..RandomPeriod |-> SeededView(StartTime + i - 1, j - 1)],
                      1, RandomPeriod)],
           1, Cardinality(ClockValues))

SeededAt(t, g) == SeededTable[t - StartTime + 1][(g % RandomPeriod) + 1]

\* A promise that has not settled, one that was fulfilled, one that was
\* rejected with the given reason
Pending == [state |-> "pending"]

Fulfilled == [state |-> "fulfilled"]

Rejected(reason) == [state |-> "rejected", reason |-> reason]

\* No call has been made
NotCalled == [state |-> "not called"]

\* ml-inference once the module is evaluated: nothing loaded, nothing asked
Imported ==
    /\ _model = null
    /\ _loadPromise = 0
    /\ fetches = <<>>
    /\ loadCalls = <<>>
    /\ predicted = NotCalled

\* The state and the environment when the component is constructed; tr
\* says what is exercised
ComponentConstructed(tr) ==
    /\ connectionState = "disconnected"
    /\ shown = "disconnected"
    /\ errorMessage = ""
    /\ deviceName = ""
    /\ now = StartTime
    /\ connects = <<>>
    /\ disconnects = <<>>
    /\ reads = 0
    /\ simTicks = 0
    /\ trial = tr

\* The refs as useRef initialises them, no read loop started, every port
\* closed
NoSession ==
    /\ portRef = 0
    /\ readerRef = 0
    /\ readingRef = FALSE
    /\ lineBufferRef = <<>>
    /\ loops = [c \in 1..MaxConnects |-> NoLoop]
    /\ portState = [p \in Ports |-> "closed"]
    /\ locked = [p \in Ports |-> FALSE]
    /\ readable = [p \in Ports |-> FALSE]

\* startReadLoop(port) called on the opened port p, at its first await
\* reader.read() (lines 854-862): the flag is set, the pending fragment
\* emptied, the reader acquired and kept in readerRef
ReadLoopAwaiting(p) ==
    /\ portRef = 0
    /\ readerRef = 1
    /\ readingRef = TRUE
    /\ lineBufferRef = <<>>
    /\ loops = [c \in 1..MaxConnects |->
                  IF c = 1 THEN [pc |-> "read", port |-> p, result |-> "none", value |-> <<>>]
                  ELSE NoLoop]
    /\ portState = [q \in Ports |-> IF q = p THEN "opened" ELSE "closed"]
    /\ locked = [q \in Ports |-> q = p]
    /\ readable = [q \in Ports |-> q = p]

\* The refs and the environment when the component is constructed
PageConstructed(tr) == ComponentConstructed(tr) /\ NoSession

\* The program when its modules are evaluated and the component is
\* constructed
Constructed(tr) == PageConstructed(tr) /\ Imported

\* The view as useState initialises it, before any effect has run
Unseeded ==
    /\ latest = InitialReading
    /\ chartData = <<>>
    /\ activityLog = <<>>
    /\ lastUpdate = <<"-", "-", ":", "-", "-", ":", "-", "-">>
    /\ simInterval = FALSE
    /\ simDue = 0
    /\ rng \in InitialRng

\* The view once the simulated-data effect has run on mount
Seeded ==
    /\ \E g \in InitialRng :
          /\ latest = SeededAt(now, g).latest
          /\ lastUpdate = SeededAt(now, g).lastUpdate
          /\ chartData = SeededAt(now, g).chartData
          /\ activityLog = SeededAt(now, g).activityLog
          /\ rng = SeededRng(g)
    /\ simInterval = TRUE
    /\ simDue = now + SimulatedPeriod

\* The state once the component is mounted and its effects have run
Init == Constructed(NoTrial) /\ Seeded

\* A promise has settled and the continuation awaiting it has not run yet:
\* a read of a loop, an open() or a close() that was rejected at the call.
\* Continuations of settled promises run before the next event is handled.
MicrotaskPending ==
    \/ \E l \in 1..MaxConnects : loops[l].pc = "resume"
    \/ \E c \in DOMAIN connects : connects[c].pc = "open" /\ ~connects[c].opening
    \/ \E d \in DOMAIN disconnects : disconnects[d].pc = "close" /\ ~disconnects[d].closing

(***************************************************************************)
(* handleConnect                                                           *)
(***************************************************************************)
\* The Connect Device button is rendered in the states disconnected and
\* error only, and is disabled without navigator.serial, so the handler's
\* first branch is not taken.  The button is the one of the last render.
\* The call runs up to requestPort(); the state it sets in the click is
\* rendered before the next event (isConnected is false before and after).
HandleConnect ==
    /\ ~MicrotaskPending
    /\ shown \in {"disconnected", "error"}
    /\ Len(connects) < MaxConnects
    /\ setConnectionState("scanning")
    /\ setErrorMessage("")
    /\ shown' = "scanning"
    /\ connects' = Append(connects, [pc |-> "requestPort", port |-> 0, opening |-> FALSE,
                                     failure |-> NoFailure])
    /\ UNCHANGED <<mlVars, deviceName, viewVars, refVars, disconnects, loops, portVars,
                   simVars, envVars>>

\* ConnectFailed with the message taken from the failure even when it
\* carries none; C4 does not hold of it
ConnectFailed_NoFallback(err) ==
    IF err.name = "NotFoundError" \/ IncludesNoPortSelected(err)
    THEN /\ setConnectionState("disconnected")
         /\ UNCHANGED errorMessage
    ELSE /\ setErrorMessage(err.message)
         /\ setConnectionState("error")

\* The catch block of handleConnect
ConnectFailed(err) ==
    IF err.name = "NotFoundError" \/ IncludesNoPortSelected(err)
    THEN /\ setConnectionState("disconnected")
         /\ UNCHANGED errorMessage
    ELSE /\ setErrorMessage(IF err.hasMessage THEN err.message ELSE MsgOpenFallback)
         /\ setConnectionState("error")

\* requestPort() resolves with the port the user picked; port.open() is called
RequestPortResolves(c, p) ==
    /\ ~MicrotaskPending
    /\ connects[c].pc = "requestPort"
    /\ setConnectionState("connecting")
    /\ setDeviceName("HC-05")
    /\ LET opening == portState[p] = "closed"
       IN  /\ connects' = [connects EXCEPT ![c].pc = "open", ![c].port = p,
                                          ![c].opening = opening]
           /\ portState' = IF opening THEN [portState EXCEPT ![p] = "opening"] ELSE portState
    /\ UNCHANGED <<viewVars, simVars>>
    /\ UNCHANGED <<mlVars, shown, errorMessage, refVars, disconnects, loops, locked, readable, envVars>>

RequestPortRejects(c, err) ==
    /\ ~MicrotaskPending
    /\ connects[c].pc = "requestPort"
    /\ ConnectFailed(err)
    /\ connects' = [connects EXCEPT ![c] = [pc |-> "done", port |-> 0, opening |-> FALSE,
                                            failure |-> err]]
    /\ UNCHANGED <<viewVars, simVars>>
    /\ UNCHANGED <<mlVars, shown, deviceName, refVars, disconnects, loops, portVars, envVars>>

\* port.open() resolves: the rest of the try block, and startReadLoop(port)
\* up to its first await reader.read()
OpenResolves(c) ==
    /\ ~MicrotaskPending
    /\ connects[c].pc = "open"
    /\ connects[c].opening
    /\ LET p == connects[c].port
       IN  /\ portState' = [portState EXCEPT ![p] = "opened"]
           /\ readable' = [readable EXCEPT ![p] = TRUE]
           /\ locked' = [locked EXCEPT ![p] = TRUE]
           /\ portRef' = p
           /\ loops' = [loops EXCEPT ![c] = [pc |-> "read", port |-> p,
                                             result |-> "none", value |-> <<>>]]
    /\ setConnectionState("connected")
    /\ readingRef' = TRUE
    /\ lineBufferRef' = <<>>
    /\ readerRef' = c
    /\ connects' = [connects EXCEPT ![c].pc = "done", ![c].port = 0,
                                     ![c].opening = FALSE]
    /\ UNCHANGED <<viewVars, simVars>>
    /\ UNCHANGED <<mlVars, shown, errorMessage, deviceName, disconnects, envVars>>

\* port.open() rejects: the transport failed, or the port was not closed
\* (the call itself is rejected)
OpenRejects(c, err) ==
    /\ connects[c].pc = "open"
    /\ IF connects[c].opening
       THEN /\ ~MicrotaskPending
            /\ err \in OpenFailures
            /\ portState' = [portState EXCEPT ![connects[c].port] = "closed"]
       ELSE /\ err = AlreadyOpen
            /\ UNCHANGED portState
    /\ ConnectFailed(err)
    /\ connects' = [connects EXCEPT ![c] = [pc |-> "done", port |-> 0, opening |-> FALSE,
                                            failure |-> err]]
    /\ UNCHANGED <<viewVars, simVars>>
    /\ UNCHANGED <<mlVars, shown, deviceName, refVars, disconnects, loops, locked, readable, envVars>>

(***************************************************************************)
(* startReadLoop                                                           *)
(***************************************************************************)
\* await reader.read() settles with a chunk, dt seconds after the last
\* event, and not after the time the simulated-data timer is due at: the
\* timer fires first then
ReadChunk(l, value, dt) ==
    /\ ~MicrotaskPending
    /\ loops[l].pc = "read"
    /\ reads < MaxReads
    /\ simInterval => now + dt <= simDue
    /\ reads' = reads + 1
    /\ now' = now + dt
    /\ loops' = [loops EXCEPT ![l].pc = "resume", ![l].result = "chunk", ![l].value = value]
    /\ UNCHANGED <<mlVars, shown, uiVars, viewVars, refVars, connects, disconnects, portVars, simVars,
                   simTicks, trial>>

\* await reader.read() settles with done although nobody cancelled: the
\* stream ended; port.readable is a fresh stream, or null, afterwards
ReadEnd(l, again) ==
    /\ ~MicrotaskPending
    /\ loops[l].pc = "read"
    /\ loops' = [loops EXCEPT ![l].pc = "resume", ![l].result = "done"]
    /\ readable' = [readable EXCEPT ![loops[l].port] = again]
    /\ UNCHANGED <<mlVars, shown, uiVars, viewVars, refVars, connects, disconnects, portState, locked,
                   simVars, envVars>>

\* await reader.read() rejects: an I/O fault
ReadFault(l) ==
    /\ ~MicrotaskPending
    /\ loops[l].pc = "read"
    /\ loops' = [loops EXCEPT ![l].pc = "resume", ![l].result = "fault"]
    /\ UNCHANGED <<mlVars, shown, uiVars, viewVars, refVars, connects, disconnects, portVars, simVars,
                   envVars>>

\* The continuation of the loop after a chunk: lines 864-885, then the next
\* reader.read() of the inner while (true)
ResumeChunk(l) ==
    /\ loops[l].pc = "resume"
    /\ loops[l].result = "chunk"
    /\ LET got == ConsumeChunk(lineBufferRef, loops[l].value)
       IN  /\ lineBufferRef' = got.buffer
           /\ SetView(ApplyLines(View, LinesToParser(got.lines), nowTimeStr(now)))
    /\ loops' = [loops EXCEPT ![l].pc = "read", ![l].result = "none", ![l].value = <<>>]
    /\ UNCHANGED <<mlVars, shown, uiVars, portRef, readerRef, readingRef, connects, disconnects, portVars,
                   simVars, envVars>>

\* The continuation after done: break, releaseLock, and the outer while's
\* test; a new reader is acquired when it holds (getReader on a stream that
\* is locked throws, which the catch block handles)
ResumeDone(l) ==
    /\ loops[l].pc = "resume"
    /\ loops[l].result = "done"
    /\ LET p == loops[l].port
       IN  IF readingRef /\ readable[p]
           THEN /\ locked' = [locked EXCEPT ![p] = TRUE]
                /\ readerRef' = l
                /\ loops' = [loops EXCEPT ![l].pc = "read", ![l].result = "none"]
           ELSE /\ locked' = [locked EXCEPT ![p] = FALSE]
                /\ UNCHANGED readerRef
                /\ loops' = [loops EXCEPT ![l].pc = "ended", ![l].result = "none"]
    /\ UNCHANGED <<mlVars, shown, uiVars, viewVars, portRef, readingRef, lineBufferRef, connects,
                   disconnects, portState, readable, simVars, envVars>>

\* The continuation after a rejected read: releaseLock, then the catch block
ResumeFault(l) ==
    /\ loops[l].pc = "resume"
    /\ loops[l].result = "fault"
    /\ locked' = [locked EXCEPT ![loops[l].port] = FALSE]
    /\ loops' = [loops EXCEPT ![l].pc = "ended", ![l].result = "none"]
    /\ IF readingRef
       THEN /\ setConnectionState("error")
            /\ setErrorMessage(MsgConnectionLost)
       ELSE UNCHANGED <<connectionState, errorMessage>>
    /\ UNCHANGED <<viewVars, simVars>>
    /\ UNCHANGED <<mlVars, shown, deviceName, refVars, connects, disconnects, portState, readable, envVars>>

(***************************************************************************)
(* handleDisconnect                                                        *)
(***************************************************************************)
\* The Disconnect button is rendered in the state connected only; the
\* button is the one of the last render.  The call
\* runs up to await port.close(): the flag is cleared, the reader is
\* cancelled (a pending read of that reader settles with done), close() is
\* called on the port.  close() starts closing an opened port whose
\* readable stream is not locked; otherwise the call is rejected, and with
\* no port there is nothing to await.
HandleDisconnect ==
    /\ ~MicrotaskPending
    /\ shown = "connected"
    /\ Len(disconnects) < MaxDisconnects
    /\ readingRef' = FALSE
    /\ loops' = IF readerRef # 0 /\ loops[readerRef].pc = "read"
                THEN [loops EXCEPT ![readerRef].pc = "resume", ![readerRef].result = "done"]
                ELSE loops
    /\ readerRef' = 0
    /\ LET closing == portRef # 0 /\ portState[portRef] = "opened" /\ ~locked[portRef]
       IN  /\ disconnects' = Append(disconnects,
                                    [pc |-> "close", port |-> portRef, closing |-> closing])
           /\ portState' = IF closing THEN [portState EXCEPT ![portRef] = "closing"]
                           ELSE portState
    /\ UNCHANGED <<mlVars, shown, uiVars, viewVars, portRef, lineBufferRef, connects, locked, readable,
                   simVars, envVars>>

\* await port.close() settles, either way (a rejection is swallowed): the
\* rest of handleDisconnect
DisconnectSettles(d) ==
    /\ disconnects[d].pc = "close"
    /\ disconnects[d].closing => ~MicrotaskPending
    /\ IF disconnects[d].closing
       THEN /\ portState' = [portState EXCEPT ![disconnects[d].port] = "closed"]
            /\ readable' = [readable EXCEPT ![disconnects[d].port] = FALSE]
       ELSE UNCHANGED <<portState, readable>>
    /\ portRef' = 0
    /\ setConnectionState("disconnected")
    /\ setDeviceName("")
    /\ disconnects' = [disconnects EXCEPT ![d] = [pc |-> "done", port |-> 0, closing |-> FALSE]]
    /\ UNCHANGED <<viewVars, simVars>>
    /\ UNCHANGED <<mlVars, shown, errorMessage, readerRef, readingRef, lineBufferRef, connects, loops,
                   locked, envVars>>

(***************************************************************************)
(* Simulated data while not connected                                      *)
(***************************************************************************)
\* setInterval(() => applyReading(simulateReading()), 2000): the timer fires
\* two seconds after it was set or fired last, whatever happened in between,
\* and the reading is labelled with the time it fires at
SimulatedTick ==
    /\ ~MicrotaskPending
    /\ simInterval
    /\ simTicks < MaxSimTicks
    /\ simTicks' = simTicks + 1
    /\ SetView(applyReading(View, SimulatedAt(rng), nowTimeStr(simDue)))
    /\ rng' = (rng + 3) % RandomPeriod
    /\ now' = simDue
    /\ simDue' = simDue + SimulatedPeriod
    /\ UNCHANGED <<mlVars, shown, uiVars, refVars, taskVars, portVars, simInterval, reads, trial>>

(***************************************************************************)
(* Rendering, effects and unmounting                                       *)
(***************************************************************************)
\* React renders the state the setters queued, in a task of its own, and
\* runs the effects whose dependencies changed since the last render.  The
\* simulated-data effect (lines 835-849) depends on isConnected: when it
\* became true the cleanup clears the interval; when it became false the
\* view is seeded again and the interval is set.
Render ==
    /\ ~MicrotaskPending
    /\ Mounted
    /\ shown # connectionState
    /\ shown' = connectionState
    /\ LET was == shown = "connected"
           isConnected == connectionState = "connected"
       IN  IF was = isConnected
           THEN UNCHANGED <<viewVars, simVars>>
           ELSE IF isConnected
           THEN /\ simInterval' = FALSE
                /\ simDue' = 0
                /\ UNCHANGED <<viewVars, rng>>
           ELSE /\ SetView(SeededAt(now, rng))
                /\ rng' = SeededRng(rng)
                /\ simInterval' = TRUE
                /\ simDue' = now + SimulatedPeriod
    /\ UNCHANGED <<mlVars, uiVars, refVars, taskVars, portVars, envVars>>

\* The component unmounts: the cleanups of the effects run.  The interval is
\* cleared (848); the flag is cleared, the reader cancelled (a pending read
\* of that reader settles with done) and close() called on the port
\* (940-946), neither awaited.  close() starts closing an opened port whose
\* readable stream is not locked; otherwise it is rejected.  The refs and
\* the state are left as they are.
Unmount ==
    /\ ~MicrotaskPending
    /\ Mounted
    /\ shown' = "unmounted"
    /\ simInterval' = FALSE
    /\ simDue' = 0
    /\ readingRef' = FALSE
    /\ loops' = IF readerRef # 0 /\ loops[readerRef].pc = "read"
                THEN [loops EXCEPT ![readerRef].pc = "resume", ![readerRef].result = "done"]
                ELSE loops
    /\ portState' = IF portRef # 0 /\ portState[portRef] = "opened" /\ ~locked[portRef]
                    THEN [portState EXCEPT ![portRef] = "closing"]
                    ELSE portState
    /\ UNCHANGED <<mlVars, uiVars, viewVars, portRef, readerRef, lineBufferRef, connects,
                   disconnects, locked, readable, rng, envVars>>

\* The close() the unmount cleanup started completes; nothing awaits it
CleanupCloseResolves(p) ==
    /\ ~MicrotaskPending
    /\ portState[p] = "closing"
    /\ \A d \in DOMAIN disconnects :
           ~(disconnects[d].pc = "close" /\ disconnects[d].closing /\ disconnects[d].port = p)
    /\ portState' = [portState EXCEPT ![p] = "closed"]
    /\ readable' = [readable EXCEPT ![p] = FALSE]
    /\ UNCHANGED <<mlVars, shown, uiVars, viewVars, refVars, taskVars, locked, simVars, envVars>>

Next ==
    \/ Len(connects) < MaxPageConnects /\ HandleConnect
    \/ \E c \in DOMAIN connects, p \in Ports : RequestPortResolves(c, p)
    \/ \E c \in DOMAIN connects, err \in RequestPortFailures : RequestPortRejects(c, err)
    \/ \E c \in DOMAIN connects : OpenResolves(c)
    \/ \E c \in DOMAIN connects, err \in OpenFailures \cup {AlreadyOpen} : OpenRejects(c, err)
    \/ \E l \in 1..MaxConnects, value \in Chunks, dt \in ChunkDelays : ReadChunk(l, value, dt)
    \/ \E l \in 1..MaxConnects, again \in BOOLEAN : ReadEnd(l, again)
    \/ \E l \in 1..MaxConnects : ReadFault(l)
    \/ \E l \in 1..MaxConnects : ResumeChunk(l)
    \/ \E l \in 1..MaxConnects : ResumeDone(l)
    \/ \E l \in 1..MaxConnects : ResumeFault(l)
    \/ Len(disconnects) < MaxPageDisconnects /\ HandleDisconnect
    \/ \E d \in DOMAIN disconnects : DisconnectSettles(d)
    \/ SimulatedTick
    \/ Render
    \/ Unmount
    \/ \E p \in Ports : CleanupCloseResolves(p)

Spec == Init /\ [][Next]_vars


(***************************************************************************)
(* The connection state machine                                            *)
(***************************************************************************)
\* C1: Connected is entered only from Connecting, by the step in which the
\* transport open succeeds; Connecting is entered only from Scanning, by the
\* step in which an endpoint is chosen; Scanning is entered only by a
\* connect() call; a read loop is started only in a step that leaves the
\* state Connected.
C1_ConnectOrder ==
    [][ Mounted =>
        /\ (connectionState' = "connected" /\ connectionState # "connected")
            => /\ connectionState = "connecting"
               /\ \E c \in DOMAIN connects :
                     /\ connects[c].pc = "open"
                     /\ connects'[c].pc = "done"
                     /\ portState'[connects[c].port] = "opened"
        /\ (connectionState' = "connecting" /\ connectionState # "connecting")
            => /\ connectionState = "scanning"
               /\ \E c \in DOMAIN connects :
                     connects[c].pc = "requestPort" /\ connects'[c].pc = "open"
        /\ (connectionState' = "scanning" /\ connectionState # "scanning")
            => Len(connects') = Len(connects) + 1
        /\ \A l \in 1..MaxConnects :
              (loops[l].pc = "none" /\ loops'[l].pc # "none")
                  => connectionState' = "connected" ]_vars

\* C2: a disconnect() call ends in Disconnected, and the state stays
\* Disconnected until the next connect() call: Disconnected is left only by
\* the step of a connect() call.
C2_DisconnectStays ==
    [][ Mounted =>
        /\ \A d \in DOMAIN disconnects :
              (disconnects[d].pc = "close" /\ disconnects'[d].pc = "done")
                  => connectionState' = "disconnected"
        /\ (connectionState = "disconnected" /\ connectionState' # "disconnected")
            => /\ connectionState' = "scanning"
               /\ Len(connects') = Len(connects) + 1 ]_vars

\* C3: while Connected and with no disconnect() call, the loop's step after
\* a read that reported end-of-stream or raised a fault sets the state Error
\* with a message and ends the loop.
C3_UnexpectedEndIsError ==
    [][ \A l \in 1..MaxConnects :
           ( /\ Mounted
             /\ connectionState = "connected"
             /\ readingRef
             /\ loops[l].pc = "resume"
             /\ loops[l].result \in {"done", "fault"}
             /\ loops'[l].pc # "resume" )
               => /\ connectionState' = "error"
                  /\ errorMessage' # ""
                  /\ loops'[l].pc = "ended" ]_vars

\* C4: a connect() whose endpoint selection is cancelled ends in
\* Disconnected; a connect() whose open fails ends in Error with a non-empty
\* message; whenever the state is Error the message is not empty.
C4_ConnectFailures ==
    /\ [](connectionState = "error" => errorMessage # "")
    /\ [][ Mounted => \A c \in DOMAIN connects :
              /\ ( /\ connects[c].pc = "requestPort"
                   /\ connects'[c].pc = "done"
                   /\ connects'[c].failure.name = "NotFoundError" )
                     => connectionState' = "disconnected"
              /\ (connects[c].pc = "open" /\ connects'[c].failure # NoFailure)
                     => /\ connectionState' = "error"
                        /\ errorMessage' # ""
                        /\ errorMessage' = IF connects'[c].failure.hasMessage
                                           THEN connects'[c].failure.message
                                           ELSE MsgOpenFallback ]_vars

\* C4 witness: an open that failed with a value carrying no message has
\* left the state Error with the fallback message.
C4_Witness ==
    /\ connectionState = "error"
    /\ errorMessage = MsgOpenFallback
    /\ \E c \in DOMAIN connects :
          connects[c].pc = "done" /\ connects[c].failure = Failure("", FALSE, "")

\* C5: in the state Error nothing happens by itself: the state becomes
\* Scanning, Connecting or Connected only by the step of a connect() call,
\* and no loop issues a read.
C5_NoAutomaticRetry ==
    [][ (Mounted /\ connectionState = "error")
          => /\ connectionState' \in {"scanning", "connecting", "connected"}
                => /\ connectionState' = "scanning"
                   /\ Len(connects') = Len(connects) + 1
             /\ \A l \in 1..MaxConnects :
                   ~(loops[l].pc # "read" /\ loops'[l].pc = "read") ]_vars

(***************************************************************************)
(* Line reassembly on its own: one session's loop fed a text in chunks     *)
(***************************************************************************)
\* Characters of the texts, each as the bytes that encode it
LineAlphabet == {<<"a">>, <<"\r">>, <<"\n">>, <<ByteLead, ByteCont>>}

\* Characters in a stream
MaxStreamChars == 5

\* Chunks a stream is cut into
MaxChunks == 3

\* The encoded texts of at most n characters
RECURSIVE Texts(_)
Texts(n) ==
    IF n = 0 THEN {<<>>}
    ELSE Texts(n - 1) \cup {t \o c : t \in Texts(n - 1), c \in LineAlphabet}

\* Texts(0), ..., Texts(MaxStreamChars), tabulated
TextTable ==
    SubSeq([i \in 1..(MaxStreamChars + 1) |-> Texts(i - 1)], 1, MaxStreamChars + 1)

\* Number of characters of an encoded text
CharCount(bytes) == Len(decode(bytes))

\* The chunks that can still arrive: the texts the stream has room for
ChunkTexts == TextTable[MaxStreamChars - CharCount(trial.sent) + 1]

\* One chunk goes through lines 862-872 of the loop; the segments the split
\* completes, and the lines that reach parseArduinoLine, are recorded in order
FeedChunk(value) ==
    /\ trial.of = "lines"
    /\ readerRef # 0
    /\ loops[readerRef].pc = "read"
    /\ Len(trial.cuts) < MaxChunks
    /\ CharCount(trial.sent) + CharCount(value) <= MaxStreamChars
    /\ LET got == ConsumeChunk(lineBufferRef, value)
       IN  /\ lineBufferRef' = got.buffer
           /\ trial' = [trial EXCEPT !.sent = @ \o value,
                                      !.cuts = Append(@, CharCount(value)),
                                      !.emitted = @ \o LinesToParser(got.lines),
                                      !.segments = @ \o got.lines]
    /\ UNCHANGED <<mlVars, shown, uiVars, viewVars, portRef, readerRef, readingRef, taskVars, portVars,
                   simVars, now, reads, simTicks>>

\* startReadLoop is awaiting its first read on port 1
InitLines ==
    /\ ComponentConstructed([of |-> "lines", sent |-> <<>>, cuts |-> <<>>, emitted |-> <<>>,
                             segments |-> <<>>])
    /\ ReadLoopAwaiting(1)
    /\ Imported
    /\ Unseeded

NextLines == \E value \in ChunkTexts : FeedChunk(value)

SpecLines == InitLines /\ [][NextLines]_vars

\* The segments of a text that a line separator ends
CompleteSegments(text) == SubSeq(split(text), 1, Len(split(text)) - 1)

SlotTokens ==
    { <<"0", ".", "4", "5">>, <<"1", "2">>, <<"0">>,
      <<".">>, <<".", ".">>, <<"1", ".", "2", ".", "3">>, <<"a", "b", "c">>, <<>>,
      <<"-", "5">>, <<"-", "0", ".", "5">>, <<"1", ".", "5">>, <<"9", "0">>,
      <<"-", "9", "0">> }

\* The numeric slots of a record, in order: Moisture, Mn, Tilt, Tn,
\* Vibration, Vn, Risk
NumericSlots == 1..7

\* How a line departs from the record format: not at all, a comma for every
\* bar, a colon for every equals sign, the line cut short (fields missing)
Defects == {"none", "comma for bar", "colon for equals", "cut short"}

\* The character written where the record has a blank: a space, or another
\* character of the class \s
Blanks == {" ", "<U+00A0>"}

\* s with every c replaced by d
Substitute(s, c, d) == [i \in DOMAIN s |-> IF s[i] = c THEN d ELSE s[i]]

\* The example record with token in the slot, and the defect
TrialLine(slot, token, defect) ==
    LET f == [k \in NumericSlots |->
                IF k = slot THEN token
                ELSE << <<"6", "1", "2">>, <<"0", ".", "6", "9">>,
                        <<"1", "2", ".", "3", "4">>, <<"0", ".", "2", "7">>,
                        <<"3", "0", "8">>, <<"0", ".", "3", "0">>,
                        <<"0", ".", "4", "5">> >>[k]]
        line == WireLine(f[1], f[2], f[3], f[4], f[5], f[6], f[7], LevelMEDIUM)
    IN  CASE defect = "none" -> line
          [] defect = "comma for bar" -> Substitute(line, "|", ",")
          [] defect = "colon for equals" -> Substitute(line, "=", ":")
          [] defect = "cut short" -> SubSeq(line, 1, Len(line) - Len(LitLevel) - 8)

\* The line is handed to parseArduinoLine
ParseLine ==
    /\ trial.of = "parse"
    /\ ~trial.parsed
    /\ trial' = [trial EXCEPT !.parsed = TRUE, !.result = parseArduinoLine(trial.line)]
    /\ UNCHANGED <<mlVars, shown, uiVars, viewVars, refVars, taskVars, portVars, simVars, now, reads,
                   simTicks>>

\* Words written after LEVEL: in every letter case, recognised or not
LevelTokens ==
    { <<"L", "O", "W">>, <<"l", "o", "w">>, <<"M", "e", "d", "i", "u", "m">>,
      <<"m", "e", "d", "i", "u", "m">>, <<"h", "I", "g", "H">>, <<"H", "I", "G", "H">>,
      <<"H", "I", "G", "H", "E", "S", "T">>, <<"f", "o", "o">>, <<"L", "0", "W">>,
      <<"7">>, <<"C", "R", "I", "T", "I", "C", "A", "L">>, <<"h", "i", "_", "g", "h">> }

\* The example record with the word as its level
LevelLine(word) ==
    WireLine(<<"6", "1", "2">>, <<"0", ".", "6", "9">>, <<"1", "2", ".", "3", "4">>,
             <<"0", ".", "2", "7">>, <<"3", "0", "8">>, <<"0", ".", "3", "0">>,
             <<"0", ".", "4", "5">>, word)

\* Either a numeric slot and a defect are tried with the level MEDIUM, or a
\* level word with the example's numbers; the blanks of the line are all
\* spaces or all no-break spaces
InitParse ==
    /\ \/ \E slot \in NumericSlots, token \in SlotTokens, defect \in Defects,
             blank \in Blanks :
             Constructed([of |-> "parse", slot |-> slot, token |-> token,
                          defect |-> defect, level |-> LevelMEDIUM,
                          line |-> Substitute(TrialLine(slot, token, defect), " ", blank),
                          parsed |-> FALSE, result |-> null])
       \/ \E word \in LevelTokens, blank \in Blanks :
             Constructed([of |-> "parse", slot |-> 7, token |-> <<"0", ".", "4", "5">>,
                          defect |-> "none", level |-> word,
                          line |-> Substitute(LevelLine(word), " ", blank),
                          parsed |-> FALSE, result |-> null])
    /\ Unseeded

NextParse == ParseLine

SpecParse == InitParse /\ [][NextParse]_vars

\* <num> of the record grammar: digits, optionally a point and digits,
\* optionally signed
IsNumber(s) ==
    LET start == IF Len(s) >= 1 /\ s[1] = "-" THEN 2 ELSE 1
        i1 == SkipWhile(s, start, DigitClass)
        i2 == IF i1 <= Len(s) /\ s[i1] = "." THEN SkipWhile(s, i1 + 1, DigitClass) ELSE i1
    IN  /\ i1 > start
        /\ i2 = Len(s) + 1
        /\ (i2 > i1 => i2 > i1 + 1)

\* C7: a line that violates the record grammar (a field missing, a wrong
\* separator, a value in a numeric slot that is no number) yields no
\* reading.
C7_ViolationsYieldNull ==
    (trial.of = "parse" /\ trial.parsed /\ (trial.defect # "none" \/ ~IsNumber(trial.token)))
        => trial.result = null

(***************************************************************************)
(* Parse failures in the read loop, and the chart's bound                  *)
(***************************************************************************)
\* C8: the loop's step for a chunk leaves the connection state and the
\* error message alone and changes the view exactly as the lines that parse
\* change it, in order: a line that fails to parse changes nothing, and the
\* lines after it are processed; the loop then reads on.
C8_ParseFailureSkipped ==
    [][ \A l \in 1..MaxConnects :
           ( /\ Mounted
             /\ loops[l].pc = "resume"
             /\ loops[l].result = "chunk"
             /\ loops'[l].pc # "resume" )
               => LET lines == LinesToParser(ConsumeChunk(lineBufferRef, loops[l].value).lines)
                      good == SelectSeq(lines, LAMBDA line : parseArduinoLine(line) # null)
                  IN  /\ connectionState' = connectionState
                      /\ errorMessage' = errorMessage
                      /\ loops'[l].pc = "read"
                      /\ good = <<>> => UNCHANGED viewVars
                      /\ View' = ApplyLines(View, good, nowTimeStr(now)) ]_vars

\* The reading of ExampleLine
ExampleReading == parseArduinoLine(ExampleLine)

\* C8 witness: the only chunk delivered so far held a broken line and then
\* the example record; the record is the latest reading, the session is
\* still Connected and its loop is reading.
C8_Witness ==
    /\ reads = 1
    /\ connectionState = "connected"
    /\ latest = ExampleReading
    /\ lineBufferRef = <<>>
    /\ \E l \in 1..MaxConnects : loops[l].pc = "read"

\* C9: the chart series never holds more than 60 points.
C9_ChartBounded == Len(chartData) <= ChartCapacity

(***************************************************************************)
(* The aggregator on its own: numbered readings applied one after another  *)
(***************************************************************************)
\* Readings applied in a run
MaxApplied == 65

\* What the readings of a run are: all different, all the same and applied
\* within one second, or two values in turn
ReadingKinds == {"distinct", "same", "alternating"}

\* Reading number i of a run
NumberedReading(kind, i) ==
    LET k == CASE kind = "distinct" -> i
               [] kind = "same" -> 1
               [] kind = "alternating" -> i % 2
    IN  [ moistureRaw |-> RInt(k), tilt |-> RInt(0), vibrationRaw |-> RInt(k),
          Mn |-> Rat(k % 101, 100), Tn |-> RInt(0), Vn |-> Rat(k % 101, 100),
          R |-> Rat(k % 101, 100), level |-> LevelLOW ]

\* Seconds between two readings of a run
ReadingPeriod(kind) == IF kind = "same" THEN 0 ELSE 2

\* The clock when reading number i of a run is applied
AppliedAt(kind, i) == StartTime + ReadingPeriod(kind) * (i - 1)

\* applyReading(r) with the next reading of the run
ApplyNext ==
    /\ trial.of = "apply"
    /\ trial.applied < MaxApplied
    /\ SetView(applyReading(View, NumberedReading(trial.kind, trial.applied + 1),
                            nowTimeStr(now)))
    /\ now' = now + ReadingPeriod(trial.kind)
    /\ trial' = [trial EXCEPT !.applied = @ + 1]
    /\ UNCHANGED <<mlVars, shown, uiVars, refVars, taskVars, portVars, simVars, reads, simTicks>>

\* The series is empty, or holds the simulated history
InitAgg ==
    /\ \E kind \in ReadingKinds : Constructed([of |-> "apply", kind |-> kind, applied |-> 0])
    /\ Unseeded \/ Seeded

NextAgg == ApplyNext

SpecAgg == InitAgg /\ [][NextAgg]_vars

\* C10: once 60 or more readings have been applied, the chart series is the
\* points of the 60 most recent ones in arrival order, the newest last,
\* equal points included.
C10_LastSixty ==
    (trial.of = "apply" /\ trial.applied >= ChartCapacity) =>
        chartData =
            [j \in 1..ChartCapacity |->
                LET i == trial.applied - ChartCapacity + j
                IN  ChartPointOf(NumberedReading(trial.kind, i),
                                 TimeStr(AppliedAt(trial.kind, i)))]

\* C10 witness: 65 different readings have been applied; the series starts
\* with reading 6 and ends with reading 65.
C10_Witness ==
    /\ trial.of = "apply"
    /\ trial.kind = "distinct"
    /\ trial.applied = 65
    /\ Len(chartData) = 60
    /\ chartData[1].Mn = Rat(6, 100)
    /\ chartData[60].Mn = Rat(65, 100)

(***************************************************************************)
(* The activity log                                                        *)
(***************************************************************************)
\* The clock value a label `${HH}:${MM}:${SS}` stands for
ClockOf(time) ==
    (DigitVal(time[1]) * 10 + DigitVal(time[2])) * 3600 +
    (DigitVal(time[4]) * 10 + DigitVal(time[5])) * 60 +
    (DigitVal(time[7]) * 10 + DigitVal(time[8]))

\* C11: the activity log never holds more than 20 entries and is ordered
\* newest-first: no entry is older than the entry after it.
C11_LogNewestFirst ==
    /\ Len(activityLog) <= LogCapacity
    /\ \A i \in 1..(Len(activityLog) - 1) :
          ClockOf(activityLog[i].time) >= ClockOf(activityLog[i + 1].time)

(***************************************************************************)
(* ml-inference: the model descriptor and its loading                      *)
(***************************************************************************)
\* loadModel() calls in a run
MaxLoadCalls == 3

\* "thresholds": { "low_medium": 0.3, "medium_high": 0.6 }
DescriptorThresholds == [low_medium |-> FOfRat(3, 10), medium_high |-> FOfRat(6, 10)]

\* The "layers" of a network of one layer, Dense(1, Sigmoid) on the three
\* inputs: "weights" has a row for each input
OneLayer(w, b) ==
    << [weights |-> << <<w[1]>>, <<w[2]>>, <<w[3]>> >>, biases |-> <<b>>] >>

\* Biases b for which the sigmoid of b is the double 0.3, 0.6, 0.29, 0.59,
\* 0.44999999999999996 and 0.14999999999999997: -0.8472978603872037,
\* 0.40546510810816416, -0.8953840470548415, 0.36396537720141137,
\* -0.2006706954621515 and -1.7346010553881066; then 0, whose sigmoid is
\* 0.5, and -1000 and 1000, which the sigmoid takes for -500 and 500
Biases ==
    { [s |-> -1, m |-> <<22349, 26378, 14880, 108>>, e |-> -52],
      [s |-> 1, m |-> <<29449, 31535, 31121, 25>>, e |-> -51],
      [s |-> -1, m |-> <<24295, 29166, 19960, 114>>, e |-> -52],
      [s |-> 1, m |-> <<13593, 24570, 11477, 186>>, e |-> -54],
      [s |-> -1, m |-> <<8719, 19747, 24359, 102>>, e |-> -54],
      [s |-> -1, m |-> <<32245, 2375, 474, 111>>, e |-> -51],
      FZero,
      FOfSigned(-1000),
      FOfSigned(1000) }

\* Weights and bias of one-layer networks whose output changes with the
\* inputs: rising with each, rising with two and falling with the third,
\* falling with each, rising with one as much as it falls with another, and
\* rising with each where the sigmoid is all but flat
Sloped ==
    { [w |-> <<FOfRat(4, 10), FOfRat(4, 10), FOfRat(4, 10)>>, b |-> FZero],
      [w |-> <<FOfRat(4, 10), FOfRat(4, 10), FOfRat(-2, 10)>>, b |-> FZero],
      [w |-> <<FOfRat(-4, 10), FOfRat(-4, 10), FOfRat(-4, 10)>>, b |-> FZero],
      [w |-> <<FOfRat(4, 10), FOfRat(-4, 10), FZero>>, b |-> FZero],
      [w |-> <<FOfRat(4, 10), FOfRat(4, 10), FOfRat(4, 10)>>, b |-> FOfSigned(-14)],
      [w |-> <<FOfRat(4, 10), FOfRat(4, 10), FOfRat(4, 10)>>, b |-> FOfSigned(-20)] }

\* A network of the shape the module documents, Dense(ReLU), Dense(ReLU),
\* Dense(1, Sigmoid), with two units in each hidden layer
ThreeLayers ==
    << [ weights |-> << <<FOne, FOfSigned(-1)>>,
                        <<FHalf, FZero>>,
                        <<FZero, FHalf>> >>,
         biases |-> <<FZero, FOfRat(1, 4)>> ],
       [ weights |-> << <<FOne, FOfRat(-1, 2)>>,
                        <<FOfRat(1, 4), FOne>> >>,
         biases |-> <<FOfRat(-1, 10), FZero>> ],
       [ weights |-> << <<FOfRat(8, 10)>>, <<FOfRat(-6, 10)>> >>,
         biases |-> <<FOfRat(-2, 10)>> ] >>

\* The descriptor with the layers given
Descriptor(layers) ==
    [modelVersion |-> "1.0", thresholds |-> DescriptorThresholds, layers |-> layers]

\* The descriptors /model_weights.json may hold: networks that return the
\* same score for every input, networks of one layer whose score changes
\* with the inputs, and a network with hidden layers
Descriptors ==
    { Descriptor(OneLayer(<<FZero, FZero, FZero>>, b)) : b \in Biases }
    \cup { Descriptor(OneLayer(n.w, n.b)) : n \in Sloped }
    \cup { Descriptor(ThreeLayers) }

\* r.status of responses for which r.ok is true, and of some for which it
\* is false
StatusOk == {200, 204, 299}

StatusNotOk == {404, 500}

\* Response.ok: the status is in the range 200-299
ResponseOk(status) == status >= 200 /\ status <= 299

\* The reasons _loadPromise is rejected with: fetch() rejected, the first
\* then-callback threw, r.json() rejected
FetchFailed == [name |-> "TypeError", message |-> "Failed to fetch"]

StatusFailed(status) ==
    [name |-> "Error", message |-> <<"Failed to load model_weights.json: ", status>>]

JsonFailed == [name |-> "SyntaxError", message |-> "Unexpected token"]

\* export function isModelLoaded()
isModelLoaded == _model # null

\* loadModel() that starts a fetch whenever no descriptor is held, whether
\* or not one is in flight; C12 does not hold of it
LoadModel_NoCoalescing ==
    /\ Len(loadCalls) < MaxLoadCalls
    /\ IF _model # null
       THEN /\ loadCalls' = Append(loadCalls, [follows |-> 0, outcome |-> Fulfilled,
                                               fetchWas |-> "unneeded"])
            /\ UNCHANGED <<_loadPromise, fetches>>
       ELSE /\ fetches' = Append(fetches, [pc |-> "fetching", outcome |-> Pending])
            /\ _loadPromise' = Len(fetches) + 1
            /\ loadCalls' = Append(loadCalls, [follows |-> Len(fetches) + 1,
                                               outcome |-> Pending,
                                               fetchWas |-> "started"])
    /\ UNCHANGED <<_model, predicted>>
    /\ UNCHANGED <<uiVars, viewVars, refVars, taskVars, portVars, simVars, envVars, shown>>

\* loadModel() that forgets a rejected _loadPromise and fetches again; C13
\* does not hold of it
LoadModel_RetryAfterFailure ==
    /\ Len(loadCalls) < MaxLoadCalls
    /\ IF _model # null
       THEN /\ loadCalls' = Append(loadCalls, [follows |-> 0, outcome |-> Fulfilled,
                                               fetchWas |-> "unneeded"])
            /\ UNCHANGED <<_loadPromise, fetches>>
       ELSE IF _loadPromise # 0 /\ fetches[_loadPromise].outcome.state # "rejected"
       THEN /\ loadCalls' = Append(loadCalls, [follows |-> _loadPromise,
                                               outcome |-> Pending,
                                               fetchWas |-> fetches[_loadPromise].pc])
            /\ UNCHANGED <<_loadPromise, fetches>>
       ELSE /\ fetches' = Append(fetches, [pc |-> "fetching", outcome |-> Pending])
            /\ _loadPromise' = Len(fetches) + 1
            /\ loadCalls' = Append(loadCalls, [follows |-> Len(fetches) + 1,
                                               outcome |-> Pending,
                                               fetchWas |-> "started"])
    /\ UNCHANGED <<_model, predicted>>
    /\ UNCHANGED <<uiVars, viewVars, refVars, taskVars, portVars, simVars, envVars, shown>>

\* export async function loadModel(), up to its return.  The call is
\* recorded with the promise its result follows (0: none, the async function
\* returned undefined), what the caller awaiting it has got so far, and where
\* the fetch was when the call was made.
LoadModel ==
    /\ Len(loadCalls) < MaxLoadCalls
    /\ IF _model # null
       THEN /\ loadCalls' = Append(loadCalls, [follows |-> 0, outcome |-> Fulfilled,
                                               fetchWas |-> "unneeded"])
            /\ UNCHANGED <<_loadPromise, fetches>>
       ELSE IF _loadPromise # 0
       THEN /\ loadCalls' = Append(loadCalls, [follows |-> _loadPromise,
                                               outcome |-> Pending,
                                               fetchWas |-> fetches[_loadPromise].pc])
            /\ UNCHANGED <<_loadPromise, fetches>>
       ELSE /\ fetches' = Append(fetches, [pc |-> "fetching", outcome |-> Pending])
            /\ _loadPromise' = Len(fetches) + 1
            /\ loadCalls' = Append(loadCalls, [follows |-> Len(fetches) + 1,
                                               outcome |-> Pending,
                                               fetchWas |-> "started"])
    /\ UNCHANGED <<_model, predicted>>
    /\ UNCHANGED <<uiVars, viewVars, refVars, taskVars, portVars, simVars, envVars, shown>>

\* The promise a loadModel() call returned settles as the promise it follows
\* has settled, and the caller's continuation gets the outcome
LoadSettles(c) ==
    /\ loadCalls[c].outcome = Pending
    /\ fetches[loadCalls[c].follows].outcome # Pending
    /\ loadCalls' = [loadCalls EXCEPT ![c].outcome = fetches[loadCalls[c].follows].outcome]
    /\ UNCHANGED <<_model, _loadPromise, fetches, predicted>>
    /\ UNCHANGED <<uiVars, viewVars, refVars, taskVars, portVars, simVars, envVars, shown>>

\* fetch() resolves with a response; the first then-callback throws unless
\* r.ok and otherwise returns r.json()
FetchResolves(f, status) ==
    /\ fetches[f].pc = "fetching"
    /\ fetches' = [fetches EXCEPT
                     ![f] = IF ResponseOk(status)
                            THEN [pc |-> "parsing", outcome |-> Pending]
                            ELSE [pc |-> "settled",
                                  outcome |-> Rejected(StatusFailed(status))]]
    /\ UNCHANGED <<_model, _loadPromise, loadCalls, predicted>>
    /\ UNCHANGED <<uiVars, viewVars, refVars, taskVars, portVars, simVars, envVars, shown>>

\* fetch() rejects: both then-callbacks are skipped
FetchRejects(f) ==
    /\ fetches[f].pc = "fetching"
    /\ fetches' = [fetches EXCEPT ![f] = [pc |-> "settled",
                                          outcome |-> Rejected(FetchFailed)]]
    /\ UNCHANGED <<_model, _loadPromise, loadCalls, predicted>>
    /\ UNCHANGED <<uiVars, viewVars, refVars, taskVars, portVars, simVars, envVars, shown>>

\* r.json() resolves with the descriptor; the second then-callback stores it
JsonResolves(f, data) ==
    /\ fetches[f].pc = "parsing"
    /\ _model' = data
    /\ fetches' = [fetches EXCEPT ![f] = [pc |-> "settled", outcome |-> Fulfilled]]
    /\ UNCHANGED <<_loadPromise, loadCalls, predicted>>
    /\ UNCHANGED <<uiVars, viewVars, refVars, taskVars, portVars, simVars, envVars, shown>>

\* r.json() rejects: the body is not JSON
JsonRejects(f) ==
    /\ fetches[f].pc = "parsing"
    /\ fetches' = [fetches EXCEPT ![f] = [pc |-> "settled",
                                          outcome |-> Rejected(JsonFailed)]]
    /\ UNCHANGED <<_model, _loadPromise, loadCalls, predicted>>
    /\ UNCHANGED <<uiVars, viewVars, refVars, taskVars, portVars, simVars, envVars, shown>>

(***************************************************************************)
(* ml-inference: inference                                                 *)
(***************************************************************************)
\* throw new Error(message)
Thrown(message) == [thrown |-> "Error", message |-> message]

MsgNotLoaded == "Model not loaded."

MsgNotLoadedForward == "Model not loaded. Call loadModel() first."

\* function relu(x)
relu(x) == FMax(FZero, x)

\* let sum = b[j]; for (i ...) sum += x[i] * W[i][j], from input i on
RECURSIVE SumFrom(_, _, _, _, _)
SumFrom(x, W, j, i, sum) ==
    IF i > Len(x) THEN sum
    ELSE SumFrom(x, W, j, i + 1, FAdd(sum, FMul(x[i], W[i][j])))

\* out[j] for the outputs from j on
RECURSIVE OutFrom(_, _, _, _)
OutFrom(x, W, b, j) ==
    IF j > Len(W[1]) THEN <<>>
    ELSE <<SumFrom(x, W, j, 1, b[j])>> \o OutFrom(x, W, b, j + 1)

\* function linearLayer(x, W, b)
linearLayer(x, W, b) == OutFrom(x, W, b, 1)

\* const eps = 1e-4
Eps == FOfRat(1, 10000)

\* 1e-6 and 1e-8
MinWeighted == FDiv(FOne, FOfInt(1000000))

MinGradient == FDiv(FOne, FOfInt(100000000))

\* The inputs of the four forward passes of computeContributions
Probes(Mn, Tn, Vn) ==
    << <<Mn, Tn, Vn>>,
       <<FAdd(Mn, Eps), Tn, Vn>>,
       <<Mn, FAdd(Tn, Eps), Vn>>,
       <<Mn, Tn, FAdd(Vn, Eps)>> >>

\* The normalised values of the documented example line
ExampleInputs == <<FOfRat(69, 100), FOfRat(27, 100), FOfRat(30, 100)>>

\* Arguments Mn, Tn and Vn callers pass to predictRisk: all equal, below 0,
\* at 0, at 1 and above 1; different, of one sign and of both; and the
\* example
Arguments ==
    { <<FOfRat(-1, 2), FOfRat(-1, 2), FOfRat(-1, 2)>>,
      <<FZero, FZero, FZero>>,
      <<FOne, FOne, FOne>>,
      <<FOfRat(3, 2), FOfRat(3, 2), FOfRat(3, 2)>>,
      <<FOfRat(3, 10), FOne, FOfRat(3, 2)>>,
      <<FOne, FOfRat(-1, 2), FZero>>,
      <<FOne, FOne, FOfRat(-1, 2)>>,
      <<FOfRat(-1, 2), FOne, FOfRat(3, 2)>>,
      <<FOne, FOfRat(3, 2), FOne>>,
      ExampleInputs }

\* The inputs forwardPass is given in those calls
Points == UNION { {Probes(a[1], a[2], a[3])[i] : i \in 1..4} : a \in Arguments }

\* z.map(relu)
RECURSIVE Rectified(_)
Rectified(z) ==
    IF z = <<>> THEN <<>> ELSE <<relu(Head(z))>> \o Rectified(Tail(z))

\* The z of the last layer: the loop of forwardPass over the layers given,
\* from layer l on, up to the activation of the last
RECURSIVE LastSums(_, _, _)
LastSums(layers, a, l) ==
    IF l = Len(layers) THEN linearLayer(a, layers[l].weights, layers[l].biases)
    ELSE LastSums(layers,
                  Rectified(linearLayer(a, layers[l].weights, layers[l].biases)),
                  l + 1)

\* -Math.max(-500, Math.min(500, x)): what sigmoid gives Math.exp
SigmoidExponent(x) == FNeg(FMax(FOfSigned(-500), FMin(FOfInt(500), x)))

\* What Math.exp is given when the networks of Descriptors are evaluated
\* at those inputs
ExpArguments ==
    UNION { {SigmoidExponent(LastSums(d.layers, p, 1)[j]) :
                j \in 1..Len(d.layers[Len(d.layers)].biases)} :
            d \in Descriptors, p \in Points }

\* exp of each of them, computed once
Exponentials == { <<x, Ieee754Exp(x)>> : x \in ExpArguments }

\* Math.exp(x): the value already computed, if there is one
MathExp(x, computed) ==
    IF computed = {} THEN Ieee754Exp(x) ELSE (CHOOSE e \in computed : TRUE)[2]

\* Math.exp(x)
Exp(x) == MathExp(x, {e \in Exponentials : e[1] = x})

\* function sigmoid(x)
sigmoid(x) == FDiv(FOne, FAdd(FOne, Exp(SigmoidExponent(x))))

\* z.map(sigmoid)
RECURSIVE Squashed(_)
Squashed(z) ==
    IF z = <<>> THEN <<>> ELSE <<sigmoid(Head(z))>> \o Squashed(Tail(z))

\* z.map(sigmoid) for the last layer and z.map(relu) for the others
Activated(z, last) == IF last THEN Squashed(z) ELSE Rectified(z)

\* The loop of forwardPass over the layers given, from layer l on, a being
\* the output of the layer before
RECURSIVE PassFrom(_, _, _)
PassFrom(layers, a, l) ==
    IF l > Len(layers) THEN a
    ELSE PassFrom(layers,
                  Activated(linearLayer(a, layers[l].weights, layers[l].biases),
                            l = Len(layers)),
                  l + 1)

\* What forwardPass returns for the inputs when the descriptor held has the
\* layers given: the first output of the last layer
Network(layers, inputs) == PassFrom(layers, inputs, 1)[1]

\* The outputs of the networks of Descriptors at the inputs of Points, each
\* computed once
Outputs ==
    { [layers |-> d.layers, at |-> {<<p, Network(d.layers, p)>> : p \in Points}] :
        d \in Descriptors }

\* The outputs already computed for the layers and the inputs given
OutputsAt(layers, inputs) ==
    {o \in UNION {n.at : n \in {n \in Outputs : n.layers = layers}} : o[1] = inputs}

\* The output of the network: the one already computed, if there is one
Output(layers, inputs, computed) ==
    IF computed = {} THEN Network(layers, inputs) ELSE (CHOOSE o \in computed : TRUE)[2]

\* function forwardPass(inputs)
forwardPass(inputs) ==
    IF _model = null THEN Thrown(MsgNotLoadedForward)
    ELSE Output(_model.layers, inputs, OutputsAt(_model.layers, inputs))

\* forwardPass of each of the points from the i-th on
RECURSIVE PassEach(_, _)
PassEach(points, i) ==
    IF i > Len(points) THEN <<>>
    ELSE <<forwardPass(points[i])>> \o PassEach(points, i + 1)

\* (forwardPass(...) - base) / eps for the passes from the i-th on, the
\* first being base
RECURSIVE DifferencesFrom(_, _)
DifferencesFrom(out, i) ==
    IF i > Len(out) THEN <<>>
    ELSE <<FDiv(FSub(out[i], out[1]), Eps)>> \o DifferencesFrom(out, i + 1)

\* dMn, dTn and dVn of computeContributions
Gradient(Mn, Tn, Vn) == DifferencesFrom(PassEach(Probes(Mn, Tn, Vn), 1), 2)

\* Math.max(0, Math.min(1, x[i] / total)) for the x from the i-th on
RECURSIVE SharesFrom(_, _, _)
SharesFrom(x, total, i) ==
    IF i > Len(x) THEN <<>>
    ELSE <<FClamp01(FDiv(x[i], total))>> \o SharesFrom(x, total, i + 1)

\* The object computeContributions returns
Contributions(x) == [moisture |-> x[1], tilt |-> x[2], vibration |-> x[3]]

\* attrMn + attrTn + attrVn, and the like
Sum3(x) == FAdd(FAdd(x[1], x[2]), x[3])

\* attrMn, attrTn and attrVn: input times gradient
Products(args, d) == <<FMul(args[1], d[1]), FMul(args[2], d[2]), FMul(args[3], d[3])>>

\* Math.abs(dMn), Math.abs(dTn), Math.abs(dVn)
Magnitudes(d) == <<FAbs(d[1]), FAbs(d[2]), FAbs(d[3])>>

\* computeContributions from the finite differences on
Attribution(attr, grad) ==
    IF FLess(MinWeighted, Sum3(attr))
    THEN Contributions(SharesFrom(attr, Sum3(attr), 1))
    ELSE IF FLess(Sum3(grad), MinGradient)
    THEN Contributions(<<FZero, FZero, FZero>>)
    ELSE Contributions(SharesFrom(grad, Sum3(grad), 1))

\* The attribution of the arguments with the finite differences d
AttributionOf(args, d) == Attribution(Products(args, d), Magnitudes(d))

\* function computeContributions(Mn, Tn, Vn)
computeContributions(Mn, Tn, Vn) ==
    AttributionOf(<<Mn, Tn, Vn>>, Gradient(Mn, Tn, Vn))

\* function computeConfidence(score)
computeConfidence(score) ==
    LET lo == FOfRat(3, 10)
        hi == FOfRat(6, 10)
        mid == FDiv(FAdd(lo, hi), FTwo)
    IN  IF FLess(score, lo)
        THEN FMul(FTwo, FMin(score, FSub(lo, score)))
        ELSE IF FLess(score, hi)
        THEN FSub(FOne, FDiv(FAbs(FSub(score, mid)), FDiv(FSub(hi, lo), FTwo)))
        ELSE FMul(FTwo, FMin(FSub(FOne, score), FSub(score, hi)))

\* Math.round(x * 10000) / 10000: k / 10000 stands for the double nearest
\* to it
FRound4(x) == Rat(FMathRound(FMul(x, FOfInt(10000))), 10000)

\* riskClass with the thresholds themselves in the lower class; C15 does not
\* hold of it
riskClass_BoundsExcluded(riskScore) ==
    LET lo == _model.thresholds.low_medium
        hi == _model.thresholds.medium_high
    IN  IF FLess(hi, riskScore) THEN LevelHIGH
        ELSE IF FLess(lo, riskScore) THEN LevelMEDIUM
        ELSE LevelLOW

\* const riskClass = riskScore >= hi ? 'HIGH' : riskScore >= lo ? 'MEDIUM' : 'LOW'
riskClass(riskScore) ==
    LET lo == _model.thresholds.low_medium
        hi == _model.thresholds.medium_high
    IN  IF FLeq(hi, riskScore) THEN LevelHIGH
        ELSE IF FLeq(lo, riskScore) THEN LevelMEDIUM
        ELSE LevelLOW

\* const linearScore = Math.min(1, 0.40 * Mn + 0.35 * Tn + 0.25 * Vn)
linearScore(Mn, Tn, Vn) == FMin(FOne, FWeightedSum(Mn, Tn, Vn))

\* The MLPrediction predictRisk builds from the score of the network, the
\* linear score and the contributions
PredictionOf(riskScore, linear, contributions) ==
    [ riskScore |-> FRound4(riskScore),
      riskClass |-> riskClass(riskScore),
      confidence |-> FRound2(FClamp01(computeConfidence(riskScore))),
      contributions |-> [ moisture |-> FRound2(contributions.moisture),
                          tilt |-> FRound2(contributions.tilt),
                          vibration |-> FRound2(contributions.vibration) ],
      linearScore |-> FRound4(linear),
      delta |-> FRound4(FSub(riskScore, linear)),
      meta |-> _model ]

\* The MLPrediction predictRisk builds from the descriptor held
Prediction(Mn, Tn, Vn) ==
    PredictionOf(forwardPass(<<Mn, Tn, Vn>>), linearScore(Mn, Tn, Vn),
                 computeContributions(Mn, Tn, Vn))

\* predictRisk that answers with an all-zero LOW prediction while no
\* descriptor is held; C14 does not hold of it
predictRisk_DefaultPrediction(Mn, Tn, Vn) ==
    IF _model = null
    THEN [ riskScore |-> RInt(0), riskClass |-> LevelLOW, confidence |-> RInt(0),
           contributions |-> [moisture |-> RInt(0), tilt |-> RInt(0),
                              vibration |-> RInt(0)],
           linearScore |-> FRound4(linearScore(Mn, Tn, Vn)),
           delta |-> RInt(0), meta |-> null ]
    ELSE Prediction(Mn, Tn, Vn)

\* export function predictRisk(Mn, Tn, Vn): the prediction returned or the
\* error thrown
predictRisk(Mn, Tn, Vn) ==
    IF _model = null THEN Thrown(MsgNotLoaded) ELSE Prediction(Mn, Tn, Vn)

\* A caller calls predictRisk and keeps what it got, with the arguments
PredictRisk(Mn, Tn, Vn) ==
    /\ predicted' = [args |-> <<Mn, Tn, Vn>>, result |-> predictRisk(Mn, Tn, Vn)]
    /\ UNCHANGED <<_model, _loadPromise, fetches, loadCalls>>
    /\ UNCHANGED <<uiVars, viewVars, refVars, taskVars, portVars, simVars, envVars, shown>>

InitModel == Constructed(NoTrial) /\ Unseeded

\* Callers load the model and ask for a prediction of the example at any
\* time, while the fetch proceeds
NextModel ==
    \/ LoadModel
    \/ \E c \in DOMAIN loadCalls : LoadSettles(c)
    \/ \E f \in DOMAIN fetches :
          \/ \E status \in StatusOk \cup StatusNotOk : FetchResolves(f, status)
          \/ FetchRejects(f)
          \/ \E data \in Descriptors : JsonResolves(f, data)
          \/ JsonRejects(f)
    \/ PredictRisk(ExampleInputs[1], ExampleInputs[2], ExampleInputs[3])

SpecModel == InitModel /\ [][NextModel]_vars

\* C12: loadModel is single-flight.  At most one fetch is ever issued; every
\* loadModel() call that did not find the descriptor cached follows that one
\* fetch and gets its outcome and no other; a call that found the descriptor
\* cached is fulfilled at once; and once a descriptor is held no step starts
\* a fetch or replaces the descriptor.
C12_SingleFlight ==
    [][ /\ Len(fetches') <= 1
        /\ \A c \in DOMAIN loadCalls' :
              IF loadCalls'[c].follows = 0
              THEN loadCalls'[c].outcome = Fulfilled /\ _model' # null
              ELSE /\ loadCalls'[c].follows = 1
                   /\ loadCalls'[c].outcome \in {Pending, fetches'[1].outcome}
        /\ _model # null => _model' = _model /\ fetches' = fetches ]_vars

\* C12 witness: three calls, the first started the fetch, the second was made
\* while the response was being awaited, the third after the descriptor was
\* stored; one fetch was issued and all three are fulfilled.
C12_Witness ==
    /\ Len(loadCalls) = 3
    /\ loadCalls[1].fetchWas = "started"
    /\ loadCalls[2].fetchWas = "fetching"
    /\ loadCalls[3].fetchWas = "unneeded"
    /\ \A c \in 1..3 : loadCalls[c].outcome = Fulfilled
    /\ Len(fetches) = 1
    /\ _model \in Descriptors

\* C13: a failed load is retained.  Once the fetch has failed (fetch
\* rejected, response not ok, or body not JSON) no descriptor is held, no
\* second fetch is ever issued, and every loadModel() call, the ones made
\* after the failure included, follows the failed operation and gets its
\* rejection and nothing else.
C13_FailureRetained ==
    (fetches # <<>> /\ fetches[1].outcome.state = "rejected") =>
        /\ ~isModelLoaded
        /\ Len(fetches) = 1
        /\ _loadPromise = 1
        /\ \A c \in DOMAIN loadCalls :
              /\ loadCalls[c].follows = 1
              /\ loadCalls[c].outcome \in {Pending, fetches[1].outcome}

\* C13 witness: the server answered 404; the second and third calls were
\* made after that and were rejected with the same error.
C13_Witness ==
    /\ Len(fetches) = 1
    /\ fetches[1].outcome = Rejected(StatusFailed(404))
    /\ Len(loadCalls) = 3
    /\ loadCalls[2].fetchWas = "settled"
    /\ loadCalls[3].fetchWas = "settled"
    /\ \A c \in 1..3 : loadCalls[c].outcome = Rejected(StatusFailed(404))
    /\ ~isModelLoaded

\* C14: predictRisk without a successfully loaded descriptor throws the
\* usage error and returns no prediction.  A descriptor is held exactly when
\* a load has been fulfilled; predictRisk throws the usage error exactly when
\* isModelLoaded() is false; and what the last caller got is the error if it
\* was thrown and a prediction carrying the descriptor otherwise.
C14_UsageError ==
    /\ isModelLoaded <=> (\E f \in DOMAIN fetches : fetches[f].outcome = Fulfilled)
    /\ (predictRisk(ExampleInputs[1], ExampleInputs[2], ExampleInputs[3])
            = Thrown(MsgNotLoaded)) <=> ~isModelLoaded
    /\ ~isModelLoaded /\ predicted # NotCalled => predicted.result = Thrown(MsgNotLoaded)
    /\ predicted # NotCalled /\ predicted.result # Thrown(MsgNotLoaded) =>
          /\ isModelLoaded
          /\ predicted.result.meta \in Descriptors

\* C14 witness: a caller asked for a prediction after the load had failed and
\* got the usage error.
C14_Witness ==
    /\ fetches # <<>>
    /\ fetches[1].outcome = Rejected(JsonFailed)
    /\ predicted # NotCalled
    /\ predicted.result = Thrown(MsgNotLoaded)
    /\ ~isModelLoaded

(***************************************************************************)
(* The two scorers on their own                                            *)
(***************************************************************************)
\* Values Math.random returns for the moisture, the tilt and the vibration
\* of a simulated reading
RandomMoisture == {Rat(0, 1), Rat(1, 8), Rat(29, 200), Rat(37, 50), Rat(3, 4), Rat(99, 100)}

RandomTilt == {Rat(0, 1), Rat(1, 8), Rat(1, 2), Rat(187, 200), Rat(164, 175)}

RandomVibration == {Rat(0, 1), Rat(999, 1000)}

\* Scores computeConfidence is given: the doubles 0, 0.01, ..., 1
ConfidenceScores == {FOfRat(k, 100) : k \in 0..100}

\* ml-inference once a load has been fulfilled with the descriptor data
LoadedWith(data) ==
    /\ _model = data
    /\ _loadPromise = 1
    /\ fetches = <<[pc |-> "settled", outcome |-> Fulfilled]>>
    /\ loadCalls = <<[follows |-> 1, outcome |-> Fulfilled, fetchWas |-> "started"]>>
    /\ predicted = NotCalled

\* simulateReading() is called once with the values drawn
SimulateOnce ==
    /\ trial.of = "simulate"
    /\ ~trial.done
    /\ trial' = [trial EXCEPT !.done = TRUE,
                              !.reading = simulateReading(trial.u[1], trial.u[2],
                                                          trial.u[3])]
    /\ rng' = (rng + 3) % RandomPeriod
    /\ UNCHANGED <<mlVars, shown, uiVars, viewVars, refVars, taskVars, portVars, simInterval,
                   simDue, now, reads, simTicks>>

\* Either the values Math.random is going to return are drawn, or the
\* descriptor a load has stored, or the score whose confidence is computed;
\* each run makes one call
InitScore ==
    /\ Unseeded
    /\ \/ /\ \E u1 \in RandomMoisture, u2 \in RandomTilt, u3 \in RandomVibration :
                PageConstructed([ of |-> "simulate", u |-> <<u1, u2, u3>>,
                                  done |-> FALSE, reading |-> null ])
          /\ Imported
       \/ /\ PageConstructed([of |-> "predict"])
          /\ \E data \in Descriptors : LoadedWith(data)
       \/ /\ \E score \in ConfidenceScores :
                PageConstructed([ of |-> "confidence", score |-> score,
                                  done |-> FALSE, confidence |-> null ])
          /\ Imported

\* predictRisk is called once with the values drawn
PredictOnce ==
    /\ trial.of = "predict"
    /\ predicted = NotCalled
    /\ \E a \in Arguments : PredictRisk(a[1], a[2], a[3])

\* computeConfidence is called once with the score drawn
ConfidenceOnce ==
    /\ trial.of = "confidence"
    /\ ~trial.done
    /\ trial' = [trial EXCEPT !.done = TRUE,
                              !.confidence = computeConfidence(trial.score)]
    /\ UNCHANGED <<mlVars, shown, uiVars, viewVars, refVars, taskVars, portVars, simVars,
                   now, reads, simTicks>>

NextScore == SimulateOnce \/ PredictOnce \/ ConfidenceOnce

SpecScore == InitScore /\ [][NextScore]_vars

\* The classification by thresholds: below 0.30 LOW, from 0.30 to below 0.60
\* MEDIUM, from 0.60 HIGH
ClassOf(score) ==
    IF RLess(score, Rat(30, 100)) THEN LevelLOW
    ELSE IF RLess(score, Rat(60, 100)) THEN LevelMEDIUM
    ELSE LevelHIGH

\* The same classification of a double
FClassOf(score) ==
    IF FLess(score, FOfRat(30, 100)) THEN LevelLOW
    ELSE IF FLess(score, FOfRat(60, 100)) THEN LevelMEDIUM
    ELSE LevelHIGH

\* A prediction has been made
Predicted == trial.of = "predict" /\ predicted # NotCalled

\* computeConfidence has been applied
ConfidenceComputed == trial.of = "confidence" /\ trial.done

\* C15: the level of a simulated reading is the class of the score
\* simulateReading computed, and the riskClass of a prediction is the class of
\* the score the forward pass returned, with 0.30 MEDIUM and 0.60 HIGH.
C15_Thresholds ==
    /\ (trial.of = "simulate" /\ trial.done) =>
          trial.reading.level =
              FClassOf(SimulatedScore(trial.u[1], trial.u[2], trial.u[3]))
    /\ Predicted => predicted.result.riskClass = FClassOf(forwardPass(predicted.args))

\* C15 witness: the network returned exactly 0.30 and the prediction is
\* MEDIUM.
C15_Witness ==
    /\ Predicted
    /\ forwardPass(predicted.args) = FOfRat(30, 100)
    /\ predicted.result.riskScore = Rat(30, 100)
    /\ predicted.result.riskClass = LevelMEDIUM

\* C16: the linear score lies in [0, 1] whatever the inputs: the R of a
\* simulated reading does, and the linearScore of a prediction is the
\* weighted sum of its arguments clamped to [0, 1] (0 for a negative sum, 1
\* for a sum above 1).
C16_LinearScoreClamped ==
    /\ (trial.of = "simulate" /\ trial.done) =>
          RLeq(RInt(0), trial.reading.R) /\ RLeq(trial.reading.R, RInt(1))
    /\ Predicted =>
          predicted.result.linearScore =
              FRound4(FClamp01(FWeightedSum(predicted.args[1], predicted.args[2],
                                            predicted.args[3])))

(***************************************************************************)
(* The parser: the level word and the ranges of the numbers                *)
(***************************************************************************)
\* C17: a record whose level is any word yields a reading; its level is the
\* word in upper case when that is LOW, MEDIUM or HIGH, and LOW otherwise.
C17_LevelNormalised ==
    (trial.of = "parse" /\ trial.parsed /\ trial.defect = "none"
        /\ trial.line = LevelLine(trial.level)) =>
        /\ trial.result # null
        /\ trial.result.level =
              IF toUpperCase(trial.level) \in {LevelLOW, LevelMEDIUM, LevelHIGH}
              THEN toUpperCase(trial.level)
              ELSE LevelLOW

\* C17 witness: the record with LEVEL: HIGHEST was parsed and gave a reading
\* of level LOW with the example's numbers.
C17_Witness ==
    /\ trial.of = "parse"
    /\ trial.parsed
    /\ trial.level = <<"H", "I", "G", "H", "E", "S", "T">>
    /\ trial.result # null
    /\ trial.result.level = LevelLOW
    /\ trial.result.R = Rat(45, 100)

\* The field of a reading that a numeric slot fills
SlotField(r, slot) ==
    << r.moistureRaw, r.Mn, r.tilt, r.Tn, r.vibrationRaw, r.Vn, r.R >>[slot]

\* C18: a record with a number in a numeric slot, signed or not and of any
\* size, yields a reading, and the slot's field is that number.
C18_SignedUnclamped ==
    (trial.of = "parse" /\ trial.parsed /\ trial.defect = "none"
        /\ IsNumber(trial.token)) =>
        /\ trial.result # null
        /\ SlotField(trial.result, trial.slot) = parseFloat(trial.token)

(***************************************************************************)
(* Confidence                                                              *)
(***************************************************************************)
\* C19: computeConfidence is 0 at the class boundaries 0.30 and 0.60 and 1 at
\* the MEDIUM midpoint 0.45, and the confidence of a prediction, for every
\* score the network returns, is in [0, 1].
C19_ConfidenceRange ==
    /\ ConfidenceComputed =>
          /\ trial.score \in {FOfRat(30, 100), FOfRat(60, 100)} =>
                trial.confidence = FZero
          /\ trial.score = FOfRat(45, 100) => trial.confidence = FOne
    /\ Predicted =>
          /\ RLeq(RInt(0), predicted.result.confidence)
          /\ RLeq(predicted.result.confidence, RInt(1))

\* The confidence c of a LOW score as the claim has it: at most 0.15, and
\* 0.15 at score 0
LowMaxAtZero(score, c) ==
    /\ FLeq(c, FOfRat(15, 100))
    /\ score = FZero => c = FOfRat(15, 100)

\* C20 as stated: a LOW score's confidence never exceeds 0.15, is 0.15 at
\* score 0, and is below 1.
C20_LowMaxAtZero ==
    /\ (ConfidenceComputed /\ FLess(trial.score, FOfRat(30, 100))) =>
          LowMaxAtZero(trial.score, trial.confidence)
    /\ (Predicted /\ FLess(forwardPass(predicted.args), FOfRat(30, 100))) =>
          /\ LowMaxAtZero(forwardPass(predicted.args),
                          computeConfidence(forwardPass(predicted.args)))
          /\ RLess(predicted.result.confidence, RInt(1))

(***************************************************************************)
(* Attribution                                                             *)
(***************************************************************************)
\* The contributions as a triple: moisture, tilt, vibration
Triple(c) == <<c.moisture, c.tilt, c.vibration>>

\* The finite differences at the arguments of the prediction made
PredictedGradient == Gradient(predicted.args[1], predicted.args[2], predicted.args[3])

\* The contributions computeContributions returns for those arguments
PredictedContributions ==
    Triple(computeContributions(predicted.args[1], predicted.args[2], predicted.args[3]))

\* C21: the contributions are the products divided by their sum, clamped,
\* exactly when the magnitude of the sum exceeds 1e-6, whatever its sign;
\* otherwise they are the gradient magnitudes divided by their total,
\* clamped, unless that total is below 1e-8, and then they are all zero.
C21_PrimaryBySumMagnitude ==
    Predicted =>
        LET prod == Products(predicted.args, PredictedGradient)
            grad == Magnitudes(PredictedGradient)
            c == PredictedContributions
        IN  IF FLess(MinWeighted, FAbs(Sum3(prod)))
            THEN c = SharesFrom(prod, Sum3(prod), 1)
            ELSE IF FLess(Sum3(grad), MinGradient)
            THEN c = <<FZero, FZero, FZero>>
            ELSE c = SharesFrom(grad, Sum3(grad), 1)

(***************************************************************************)
(* The read loops of the sessions                                          *)
(***************************************************************************)
\* The read loops that have not ended: awaiting a read, or about to handle
\* what a read gave
ActiveLoops == {l \in 1..MaxConnects : loops[l].pc \in {"read", "resume"}}

\* C22: at most one read loop is active at any time.
C22_OneActiveLoop == Cardinality(ActiveLoops) <= 1

\* C23: once the cancellation flag is cleared a read loop issues no further
\* read and applies no further reading: its continuation after a read ends
\* the loop and leaves the view alone.
C23_NoReadAfterCancel ==
    [][ \A l \in 1..MaxConnects :
           (~readingRef /\ loops[l].pc = "resume" /\ loops'[l].pc # "resume")
               => loops'[l].pc = "ended" /\ UNCHANGED viewVars ]_vars

(***************************************************************************)
(* Termination of the read loop                                            *)
(***************************************************************************)
\* The continuation of a read that settled without a chunk, or of an open()
\* that was rejected at the call: a microtask, run before any other event is
\* handled
Continuation ==
    \/ \E l \in 1..MaxConnects : ResumeDone(l) \/ ResumeFault(l)
    \/ \E c \in DOMAIN connects : ~connects[c].opening /\ OpenRejects(c, AlreadyOpen)

\* The continuation of a settled close()
CloseSettles == \E d \in DOMAIN disconnects : DisconnectSettles(d)

\* The steps of a page that stays mounted and whose device sends nothing:
\* connecting, disconnecting, the simulated readings, and reads that settle
\* only by the stream ending, failing or being cancelled
NextLive ==
    \/ HandleConnect
    \/ \E c \in DOMAIN connects, p \in Ports : RequestPortResolves(c, p)
    \/ \E c \in DOMAIN connects, err \in RequestPortFailures : RequestPortRejects(c, err)
    \/ \E c \in DOMAIN connects : OpenResolves(c)
    \/ \E c \in DOMAIN connects, err \in OpenFailures :
          connects[c].opening /\ OpenRejects(c, err)
    \/ SimulatedTick
    \/ \E l \in 1..MaxConnects, again \in BOOLEAN : ReadEnd(l, again)
    \/ \E l \in 1..MaxConnects : ReadFault(l)
    \/ HandleDisconnect
    \/ Continuation
    \/ CloseSettles
    \/ Render

\* The session controller with the scheduling the event loop gives: a
\* continuation that is ready runs, and the transport settles close();
\* nothing obliges the user to click or the stream to end
SpecLive == Init /\ [][NextLive]_vars /\ WF_vars(Continuation) /\ WF_vars(CloseSettles)

\* The sessions of a page that stays mounted, with a device that sends:
\* the steps of NextLive, and reads that settle with a chunk
NextLoops ==
    \/ NextLive
    \/ reads < MaxLoopReads /\ \E l \in 1..MaxConnects, value \in Chunks, dt \in ChunkDelays :
                                   ReadChunk(l, value, dt)
    \/ \E l \in 1..MaxConnects : ResumeChunk(l)

SpecLoops == Init /\ [][NextLoops]_vars

\* C24: after disconnect() has cleared the flag, every read loop that is
\* still active eventually returns, unless connect() is called again.
C24_LoopTerminates ==
    \A l \in 1..MaxConnects, n \in 0..MaxConnects :
        (~readingRef /\ l \in ActiveLoops /\ Len(connects) = n)
            ~> (l \notin ActiveLoops \/ Len(connects) > n)

(***************************************************************************)
(* Teardown                                                                *)
(***************************************************************************)
\* C25: when a disconnect() made on a port completes, that port has been
\* closed and no reader lock is held on it.
C25_DisconnectCloses ==
    [][ \A d \in DOMAIN disconnects :
           (disconnects[d].pc = "close" /\ disconnects'[d].pc = "done"
                /\ disconnects[d].port # 0)
               => /\ portState'[disconnects[d].port] = "closed"
                  /\ ~locked'[disconnects[d].port] ]_vars

(***************************************************************************)
(* Reassembly of the text consumed                                         *)
(***************************************************************************)
\* The segments, each followed by the line separator
RECURSIVE JoinLines(_)
JoinLines(lines) ==
    IF lines = <<>> THEN <<>>
    ELSE Head(lines) \o <<"\n">> \o JoinLines(Tail(lines))

C27_LevelMatchesStoredR ==
    (trial.of = "simulate" /\ trial.done)
        => trial.reading.level = ClassOf(trial.reading.R)

(***************************************************************************)
(* Range and sum of the contributions                                      *)
(***************************************************************************)
\* C28: every contribution lies in [0, 1]; when the sum of the products
\* exceeds 1e-6 each contribution is its product divided by the sum, clamped
\* to [0, 1], so that a negative product gives 0, and the three
\* contributions, added as the program adds numbers, sum to 1 if no product
\* is negative.
C28_SharesSumToOne ==
    Predicted =>
        LET prod == Products(predicted.args, PredictedGradient)
            c == PredictedContributions
        IN  /\ \A i \in 1..3 : FLeq(FZero, c[i]) /\ FLeq(c[i], FOne)
            /\ FLess(MinWeighted, Sum3(prod)) =>
                  /\ \A i \in 1..3 :
                        c[i] = FMax(FZero, FMin(FOne, FDiv(prod[i], Sum3(prod))))
                  /\ \A i \in 1..3 : FLess(prod[i], FZero) => c[i] = FZero
                  /\ (\A i \in 1..3 : FLeq(FZero, prod[i])) => Sum3(c) = FOne

(***************************************************************************)
(* The pending fragment across sessions                                    *)
(***************************************************************************)
\* C29: a session starts with an empty pending fragment, and from then on
\* the fragment is changed only by the read loop of that session (the loop
\* whose reader the session holds): text read for an earlier session never
\* enters it.
C29_FragmentPerSession ==
    [][ LET starts(c) == loops[c].pc = "none" /\ loops'[c].pc = "read"
            consumes(l) == /\ loops[l].pc = "resume"
                           /\ loops[l].result = "chunk"
                           /\ loops'[l].pc = "read"
        IN  /\ \A c \in 1..MaxConnects : starts(c) => lineBufferRef' = <<>>
            /\ lineBufferRef' # lineBufferRef =>
                  \/ \E c \in 1..MaxConnects : starts(c)
                  \/ readerRef # 0 /\ consumes(readerRef) ]_vars

=============================================================================
